---- MODULE Spec2Model ----
(***************************************************************************)
(* A model of the Janode AudioBridge plugin handle: the inbound message    *)
(* dispatcher (AudioBridgeHandle.handleMessage), the feed/room state it    *)
(* keeps per handle, the request builders and the transaction registry     *)
(* they talk to.                                                           *)
(*                                                                         *)
(* JavaScript values are modelled as strings: "undefined" and "null" are   *)
(* the two nullish values, the other strings are partitioned into          *)
(* numbers, booleans, objects and (everything else) strings, so that       *)
(* typeof and truthiness are computed as JavaScript computes them.         *)
(* A JavaScript object whose key set matters (event data, request body)    *)
(* is a function from the keys that are present to their values.           *)
(***************************************************************************)
EXTENDS Integers, Sequences, FiniteSets, TLC

(* ------------------------------------------------------------------ *)
(* Bounds                                                              *)
(* ------------------------------------------------------------------ *)

\* Number of requests (transactions) a behaviour may issue.
MaxTx == 2

(* ------------------------------------------------------------------ *)
(* JavaScript values                                                   *)
(* ------------------------------------------------------------------ *)

Undef == "undefined"
Null == "null"
JsNumbers == {"0", "5", "7", "9", "42", "50", "404", "5000"}
JsBooleans == {"true", "false"}
JsArrays == {"[]", "[rooms]", "[tokens]", "[groups]"}
JsObjects == {"{}", "{jsep}", "{rtp}"} \cup JsArrays

\* typeof v
Typeof(v) ==
  IF v = Undef THEN "undefined"
  ELSE IF v = Null \/ v \in JsObjects THEN "object"
  ELSE IF v \in JsNumbers THEN "number"
  ELSE IF v \in JsBooleans THEN "boolean"
  ELSE "string"

\* ToBoolean(v): what `if (v)` and `v || w` test
Truthy(v) == v \notin {Undef, Null, "0", "", "false"}

\* Array.isArray(v)
IsArray(v) == v \in JsArrays

\* v.length > 0: an array with elements or a string with characters; the
\* length of any other value is undefined, and undefined > 0 is false
HasLength(v) ==
  \/ v \in JsArrays \ {"[]"}
  \/ Typeof(v) = "string" /\ v # ""

\* An array-valued field: absent, or an array
NoArray == [def |-> FALSE, arr |-> << >>]
Arr(s) == [def |-> TRUE, arr |-> s]

\* Objects as functions from present keys to values
EmptyObj == [k \in {} |-> Undef]
Get(o, k) == IF k \in DOMAIN o THEN o[k] ELSE Undef
Put(o, k, v) == (k :> v) @@ o
\* o.k = v only when the condition holds
PutIf(c, o, k, v) == IF c THEN Put(o, k, v) ELSE o

(* ------------------------------------------------------------------ *)
(* Constants of the plugin                                             *)
(* ------------------------------------------------------------------ *)

PLUGIN_EVENT ==
  [ JOINED |-> "audiobridge_joined",
    PEER_JOINED |-> "audiobridge_peer_joined",
    PARTICIPANTS_LIST |-> "audiobridge_participants_list",
    CONFIGURED |-> "audiobridge_configured",
    PEER_CONFIGURED |-> "audiobridge_peer_configured",
    LEAVING |-> "audiobridge_leaving",
    AUDIO_HANGINGUP |-> "audiobridge_hangingup",
    PEER_LEAVING |-> "audiobridge_peer_leaving",
    KICKED |-> "audiobridge_kicked",
    PEER_KICKED |-> "audiobridge_peer_kicked",
    EXISTS |-> "audiobridge_exists",
    ROOMS_LIST |-> "audiobridge_list",
    CREATED |-> "audiobridge_created",
    DESTROYED |-> "audiobridge_destroyed",
    RTP_FWD |-> "audiobridge_rtp_fwd",
    FWD_LIST |-> "audiobridge_rtp_list",
    ALLOWED |-> "audiobridge_allowed",
    SUCCESS |-> "audiobridge_success",
    ERROR |-> "audiobridge_error" ]

REQUEST_JOIN == "join"
REQUEST_LIST_PARTICIPANTS == "listparticipants"
REQUEST_KICK == "kick"
REQUEST_CONFIGURE == "configure"
REQUEST_LEAVE == "leave"
REQUEST_AUDIO_HANGUP == "hangup"
REQUEST_EXISTS == "exists"
REQUEST_LIST_ROOMS == "list"
REQUEST_CREATE == "create"
REQUEST_DESTROY == "destroy"
REQUEST_ALLOW == "allowed"
REQUEST_RTP_FWD_START == "rtp_forward"
REQUEST_RTP_FWD_STOP == "stop_rtp_forward"
REQUEST_RTP_FWD_LIST == "listforwarders"

(* ------------------------------------------------------------------ *)
(* Transaction registry (the Handle base class and its transaction     *)
(* manager): an identifier is pending from the request until the first *)
(* close, which removes it from the table and completes the caller's   *)
(* promise.                                                            *)
(* ------------------------------------------------------------------ *)

Handles == {"h1", "h2"}
TxIds == 1 .. MaxTx
\* transaction value of a message without a transaction identifier
NoTx == 0
\* an identifier no handle of this connection ever issued
ForeignTx == MaxTx + 1

NoResp == [event |-> Null, data |-> EmptyObj]
FreeTx ==
  [ st |-> "unused", owner |-> "h1", op |-> Null, params |-> EmptyObj,
    body |-> EmptyObj, resp |-> NoResp, n |-> 0 ]

ownsTransaction(reg, t, h) ==
  t \in DOMAIN reg /\ reg[t].st = "pending" /\ reg[t].owner = h

closeTransactionWithError(reg, t, h, err) ==
  IF ownsTransaction(reg, t, h)
    THEN [reg EXCEPT ![t].st = "rejected", ![t].n = @ + 1,
                     ![t].resp = [event |-> Null, data |-> err]]
    ELSE reg

closeTransactionWithSuccess(reg, t, h, janode) ==
  IF ownsTransaction(reg, t, h)
    THEN [reg EXCEPT ![t].st = "resolved", ![t].n = @ + 1, ![t].resp = janode]
    ELSE reg

(* ------------------------------------------------------------------ *)
(* Inbound messages                                                    *)
(* ------------------------------------------------------------------ *)

\* A Janus message: the envelope (plugindata: absent, without data, or
\* with data), the transaction, the jsep and the fields of plugindata.data.
BaseMsg ==
  [ plugindata |-> "data", audiobridge |-> Undef, transaction |-> NoTx,
    jsep |-> Undef, error |-> Undef, error_code |-> Undef, room |-> Undef,
    id |-> Undef, display |-> Undef, muted |-> Undef, setup |-> Undef,
    rtp |-> Undef, participants |-> NoArray, exists |-> Undef,
    list |-> Undef, stream_id |-> Undef, host |-> Undef, port |-> Undef,
    group |-> Undef, allowed |-> Undef, permanent |-> Undef,
    result |-> Undef, leaving |-> Undef, kicked |-> Undef,
    rtp_forwarders |-> NoArray ]

\* plugindata && plugindata.data && plugindata.data.audiobridge
InDomain(m) == m.plugindata = "data" /\ Truthy(m.audiobridge)

(* ------------------------------------------------------------------ *)
(* handleMessage: the branches of the classification switch.  Each     *)
(* yields the event kind (Null when none was set), the event data, the *)
(* handle's feed and room after the branch, whether the branch closed  *)
(* the transaction with an error, and whether it threw.                *)
(* ------------------------------------------------------------------ *)

Branch(ev, d, f, r) ==
  [event |-> ev, data |-> d, feed |-> f, room |-> r, reject |-> FALSE, threw |-> FALSE]

\* participants.map(({ id, display, muted, setup, rtp }) => ({ feed: id, ... }))
mapParticipants(arr) ==
  [ i \in 1 .. Len(arr) |->
      [ feed |-> arr[i].id, display |-> arr[i].display, muted |-> arr[i].muted,
        setup |-> arr[i].setup, rtp |-> arr[i].rtp ] ]

\* a variant of mapForwarders that copies the group of every entry
mapForwarders_everyGroup(arr) ==
  [ i \in 1 .. Len(arr) |->
      ("host" :> arr[i].ip) @@ ("audio_port" :> arr[i].port)
        @@ ("audio_stream" :> arr[i].stream_id) @@ ("always" :> arr[i].always_on)
        @@ ("group" :> arr[i].group) ]

\* rtp_forwarders.map(({ ip, port, stream_id, always_on, group }) => ...)
mapForwarders(arr) ==
  [ i \in 1 .. Len(arr) |->
      PutIf(Truthy(arr[i].group),
            ("host" :> arr[i].ip) @@ ("audio_port" :> arr[i].port)
              @@ ("audio_stream" :> arr[i].stream_id) @@ ("always" :> arr[i].always_on),
            "group", arr[i].group) ]

\* a variant of SuccessCase that reports a token-list answer under a kind of
\* its own
SuccessCase_allowedKind(md, data, fd, rm) ==
  IF Typeof(md.exists) # "undefined"
    THEN Branch(PLUGIN_EVENT.EXISTS, Put(data, "exists", md.exists), fd, rm)
  ELSE IF Typeof(md.list) # "undefined"
    THEN Branch(PLUGIN_EVENT.ROOMS_LIST, Put(data, "list", md.list), fd, rm)
  ELSE IF Typeof(md.stream_id) # "undefined"
    THEN Branch(PLUGIN_EVENT.RTP_FWD,
           Put(data, "forwarder",
               PutIf(Truthy(md.group),
                     ("host" :> md.host) @@ ("audio_port" :> md.port)
                       @@ ("audio_stream" :> md.stream_id),
                     "group", md.group)),
           fd, rm)
  ELSE IF Typeof(md.allowed) # "undefined"
    THEN Branch(PLUGIN_EVENT.ALLOWED, Put(data, "list", md.allowed), fd, rm)
  ELSE Branch(PLUGIN_EVENT.SUCCESS, data, fd, rm)

\* a variant of SuccessCase that looks for the room list first
SuccessCase_listFirst(md, data, fd, rm) ==
  IF Typeof(md.list) # "undefined"
    THEN Branch(PLUGIN_EVENT.ROOMS_LIST, Put(data, "list", md.list), fd, rm)
  ELSE IF Typeof(md.exists) # "undefined"
    THEN Branch(PLUGIN_EVENT.EXISTS, Put(data, "exists", md.exists), fd, rm)
  ELSE IF Typeof(md.stream_id) # "undefined"
    THEN Branch(PLUGIN_EVENT.RTP_FWD,
           Put(data, "forwarder",
               PutIf(Truthy(md.group),
                     ("host" :> md.host) @@ ("audio_port" :> md.port)
                       @@ ("audio_stream" :> md.stream_id),
                     "group", md.group)),
           fd, rm)
  ELSE Branch(PLUGIN_EVENT.SUCCESS,
              PutIf(Typeof(md.allowed) # "undefined", data, "list", md.allowed),
              fd, rm)

\* case 'success'
SuccessCase(md, data, fd, rm) ==
  IF Typeof(md.exists) # "undefined"
    THEN Branch(PLUGIN_EVENT.EXISTS, Put(data, "exists", md.exists), fd, rm)
  ELSE IF Typeof(md.list) # "undefined"
    THEN Branch(PLUGIN_EVENT.ROOMS_LIST, Put(data, "list", md.list), fd, rm)
  ELSE IF Typeof(md.stream_id) # "undefined"
    THEN Branch(PLUGIN_EVENT.RTP_FWD,
           Put(data, "forwarder",
               PutIf(Truthy(md.group),
                     ("host" :> md.host) @@ ("audio_port" :> md.port)
                       @@ ("audio_stream" :> md.stream_id),
                     "group", md.group)),
           fd, rm)
  ELSE Branch(PLUGIN_EVENT.SUCCESS,
              PutIf(Typeof(md.allowed) # "undefined", data, "list", md.allowed),
              fd, rm)

\* the feed, display, muted, setup (and rtp) of a participant descriptor
PeerData(data, p, withRtp) ==
  LET d1 == Put(data, "feed", p.id)
      d2 == PutIf(Typeof(p.display) = "string", d1, "display", p.display)
      d3 == PutIf(Typeof(p.muted) # "undefined", d2, "muted", p.muted)
      d4 == PutIf(Typeof(p.setup) # "undefined", d3, "setup", p.setup)
  IN  PutIf(withRtp /\ Typeof(p.rtp) # "undefined", d4, "rtp", p.rtp)

\* a variant of OwnJoin that binds the handle only when it is not bound yet
OwnJoin_bindOnce(md, data, fd, rm) ==
  LET f == IF fd = Null THEN md.id ELSE fd
      r == IF fd = Null THEN md.room ELSE rm
  IN  IF md.participants.def
        THEN Branch(PLUGIN_EVENT.JOINED,
                    Put(PeerData(data, md, TRUE), "participants",
                        mapParticipants(md.participants.arr)),
                    f, r)
        ELSE [Branch(Null, PeerData(data, md, TRUE), f, r) EXCEPT !.threw = TRUE]

\* case 'joined', the message carries the id field: the event is for this
\* handle.  this.room and this.feed are assigned before participants is read,
\* and participants.map throws when there is no participants array.
OwnJoin(md, data, fd, rm) ==
  IF md.participants.def
    THEN Branch(PLUGIN_EVENT.JOINED,
                Put(PeerData(data, md, TRUE), "participants",
                    mapParticipants(md.participants.arr)),
                md.id, md.room)
    ELSE [Branch(Null, PeerData(data, md, TRUE), md.id, md.room)
            EXCEPT !.threw = TRUE]

\* a variant of JoinedCase that binds the handle to the peer that joined
JoinedCase_peerBinds(md, data, fd, rm) ==
  IF Typeof(md.id) # "undefined"
    THEN OwnJoin(md, data, fd, rm)
  ELSE IF md.participants.def /\ Len(md.participants.arr) = 1
    THEN Branch(PLUGIN_EVENT.PEER_JOINED,
                PeerData(data, md.participants.arr[1], TRUE),
                md.participants.arr[1].id, md.room)
  ELSE Branch(Null, data, fd, rm)

\* case 'joined'
JoinedCase(md, data, fd, rm) ==
  IF Typeof(md.id) # "undefined"
    THEN OwnJoin(md, data, fd, rm)
  ELSE IF md.participants.def /\ Len(md.participants.arr) = 1
    THEN Branch(PLUGIN_EVENT.PEER_JOINED,
                PeerData(data, md.participants.arr[1], TRUE), fd, rm)
  ELSE Branch(Null, data, fd, rm)

\* case 'participants'
ParticipantsCase(md, data, fd, rm) ==
  IF md.participants.def
    THEN Branch(PLUGIN_EVENT.PARTICIPANTS_LIST,
                Put(data, "participants", mapParticipants(md.participants.arr)),
                fd, rm)
    ELSE [Branch(Null, data, fd, rm) EXCEPT !.threw = TRUE]

\* case 'created'
CreatedCase(md, data, fd, rm) ==
  Branch(PLUGIN_EVENT.CREATED, Put(data, "permanent", md.permanent), fd, rm)

\* case 'destroyed'
DestroyedCase(md, data, fd, rm) ==
  Branch(PLUGIN_EVENT.DESTROYED, data, fd, rm)

\* a variant of HangingupCase that always reports the handle's own feed
HangingupCase_ownFeed(md, data, fd, rm) ==
  Branch(PLUGIN_EVENT.AUDIO_HANGINGUP, Put(data, "feed", fd), fd, rm)

\* a variant of HangingupCase that clears the handle, as the 'left' case does
HangingupCase_clears(md, data, fd, rm) ==
  Branch(PLUGIN_EVENT.AUDIO_HANGINGUP,
         Put(data, "feed", IF Truthy(md.id) THEN md.id ELSE fd), Null, Null)

\* case 'hangingup'
HangingupCase(md, data, fd, rm) ==
  Branch(PLUGIN_EVENT.AUDIO_HANGINGUP,
         Put(data, "feed", IF Truthy(md.id) THEN md.id ELSE fd), fd, rm)

\* a variant of LeftCase that clears the handle before it reads the feed
LeftCase_clearsFirst(md, data, fd, rm) ==
  Branch(PLUGIN_EVENT.LEAVING,
         Put(data, "feed", IF Truthy(md.id) THEN md.id ELSE Null), Null, Null)

\* a variant of LeftCase that clears the handle only when the departing feed
\* is its own, as the kicked sub-case does
LeftCase_onlyOwn(md, data, fd, rm) ==
  LET f == IF Truthy(md.id) THEN md.id ELSE fd
  IN  IF f = fd
        THEN Branch(PLUGIN_EVENT.LEAVING, Put(data, "feed", f), Null, Null)
        ELSE Branch(PLUGIN_EVENT.LEAVING, Put(data, "feed", f), fd, rm)

\* case 'left'
LeftCase(md, data, fd, rm) ==
  Branch(PLUGIN_EVENT.LEAVING,
         Put(data, "feed", IF Truthy(md.id) THEN md.id ELSE fd), Null, Null)

\* case 'forwarders'
ForwardersCase(md, data, fd, rm) ==
  IF md.rtp_forwarders.def
    THEN Branch(PLUGIN_EVENT.FWD_LIST,
                Put(data, "forwarders", mapForwarders(md.rtp_forwarders.arr)),
                fd, rm)
    ELSE [Branch(Null, data, fd, rm) EXCEPT !.threw = TRUE]

\* a variant of ErrorObj whose message is the error text alone
ErrorObj_textOnly(md) == ("message" :> <<md.error>>)

\* new Error(`${error_code} ${error}`)
ErrorObj(md) == ("message" :> <<md.error_code, " ", md.error>>)

\* a variant of EventErrorCase that leaves the transaction to the delivery step
EventErrorCase_noReject(md, data, fd, rm) ==
  Branch(PLUGIN_EVENT.ERROR, ErrorObj(md), fd, rm)

\* case 'event', the error sub-case
EventErrorCase(md, data, fd, rm) ==
  [Branch(PLUGIN_EVENT.ERROR, ErrorObj(md), fd, rm) EXCEPT !.reject = TRUE]

\* a variant of EventKickedCase that takes every kick for the handle's own
EventKickedCase_anyKick(md, data, fd, rm) ==
  Branch(PLUGIN_EVENT.KICKED, Put(data, "feed", md.kicked), Null, Null)

\* a variant of EventKickedCase that reports the handle's own kick without
\* clearing its feed and room
EventKickedCase_keepsBound(md, data, fd, rm) ==
  LET d == Put(data, "feed", md.kicked)
  IN  IF fd = d["feed"]
        THEN Branch(PLUGIN_EVENT.KICKED, d, fd, rm)
        ELSE Branch(PLUGIN_EVENT.PEER_KICKED, d, fd, rm)

\* case 'event', the kicked sub-case
EventKickedCase(md, data, fd, rm) ==
  LET d == Put(data, "feed", md.kicked)
  IN  IF fd = d["feed"]
        THEN Branch(PLUGIN_EVENT.KICKED, d, Null, Null)
        ELSE Branch(PLUGIN_EVENT.PEER_KICKED, d, fd, rm)

\* a variant of IsErrorEvent that tests the error code
IsErrorEvent_byCode(md) == Typeof(md.error_code) # "undefined"

\* whether an 'event' message takes the error sub-case: if (error)
IsErrorEvent(md) == Truthy(md.error)

\* a variant of EventCase that looks for the kicked field before the result
EventCase_kickedFirst(md, data, fd, rm) ==
  IF IsErrorEvent(md)
    THEN EventErrorCase(md, data, fd, rm)
  ELSE IF Typeof(md.kicked) # "undefined"
    THEN EventKickedCase(md, data, fd, rm)
  ELSE IF Typeof(md.result) # "undefined"
    THEN Branch(IF md.result = "ok" THEN PLUGIN_EVENT.CONFIGURED ELSE Null,
                data, fd, rm)
  ELSE IF md.participants.def /\ Len(md.participants.arr) = 1
    THEN Branch(PLUGIN_EVENT.PEER_CONFIGURED,
                PeerData(data, md.participants.arr[1], FALSE), fd, rm)
  ELSE IF Typeof(md.leaving) # "undefined"
    THEN Branch(PLUGIN_EVENT.PEER_LEAVING, Put(data, "feed", md.leaving), fd, rm)
  ELSE Branch(Null, data, fd, rm)

\* case 'event'
EventCase(md, data, fd, rm) ==
  IF IsErrorEvent(md)
    THEN EventErrorCase(md, data, fd, rm)
  ELSE IF Typeof(md.result) # "undefined"
    THEN Branch(IF md.result = "ok" THEN PLUGIN_EVENT.CONFIGURED ELSE Null,
                data, fd, rm)
  ELSE IF md.participants.def /\ Len(md.participants.arr) = 1
    THEN Branch(PLUGIN_EVENT.PEER_CONFIGURED,
                PeerData(data, md.participants.arr[1], FALSE), fd, rm)
  ELSE IF Typeof(md.leaving) # "undefined"
    THEN Branch(PLUGIN_EVENT.PEER_LEAVING, Put(data, "feed", md.leaving), fd, rm)
  ELSE IF Typeof(md.kicked) # "undefined"
    THEN EventKickedCase(md, data, fd, rm)
  ELSE Branch(Null, data, fd, rm)

\* a variant of Classify that takes an unknown tag for a generic success
Classify_unknownAsSuccess(md, data, fd, rm) ==
  CASE md.audiobridge = "success" -> SuccessCase(md, data, fd, rm)
    [] md.audiobridge = "joined" -> JoinedCase(md, data, fd, rm)
    [] md.audiobridge = "participants" -> ParticipantsCase(md, data, fd, rm)
    [] md.audiobridge = "created" -> CreatedCase(md, data, fd, rm)
    [] md.audiobridge = "destroyed" -> DestroyedCase(md, data, fd, rm)
    [] md.audiobridge = "hangingup" -> HangingupCase(md, data, fd, rm)
    [] md.audiobridge = "left" -> LeftCase(md, data, fd, rm)
    [] md.audiobridge = "forwarders" -> ForwardersCase(md, data, fd, rm)
    [] md.audiobridge = "event" -> EventCase(md, data, fd, rm)
    [] OTHER -> Branch(PLUGIN_EVENT.SUCCESS, data, fd, rm)

\* switch (audiobridge)
Classify(md, data, fd, rm) ==
  CASE md.audiobridge = "success" -> SuccessCase(md, data, fd, rm)
    [] md.audiobridge = "joined" -> JoinedCase(md, data, fd, rm)
    [] md.audiobridge = "participants" -> ParticipantsCase(md, data, fd, rm)
    [] md.audiobridge = "created" -> CreatedCase(md, data, fd, rm)
    [] md.audiobridge = "destroyed" -> DestroyedCase(md, data, fd, rm)
    [] md.audiobridge = "hangingup" -> HangingupCase(md, data, fd, rm)
    [] md.audiobridge = "left" -> LeftCase(md, data, fd, rm)
    [] md.audiobridge = "forwarders" -> ForwardersCase(md, data, fd, rm)
    [] md.audiobridge = "event" -> EventCase(md, data, fd, rm)
    [] OTHER -> Branch(Null, data, fd, rm)

\* the event data before classification: jsep and room when truthy
InitialData(m) ==
  PutIf(Truthy(m.room), PutIf(Truthy(m.jsep), EmptyObj, "jsep", m.jsep),
        "room", m.room)

\* a variant of EmitFlag that never emits
EmitFlag_never(reg, t, h) == FALSE

\* a variant of EmitFlag that always emits
EmitFlag_always(reg, t, h) == TRUE

\* const emit = (this.ownsTransaction(transaction) === false)
EmitFlag(reg, t, h) == ~ownsTransaction(reg, t, h)

\* a variant of Deliver that completes the oldest pending request of the
\* handle, whatever transaction the message carries
Deliver_oldestPending(h, m, c, reg1, emit) ==
  LET ev == [event |-> c.event, data |-> c.data]
      mine == { t \in DOMAIN reg1 : ownsTransaction(reg1, t, h) }
      oldest == IF mine = {} THEN m.transaction
                ELSE CHOOSE t \in mine : \A u \in mine : t <= u
  IN  [ feed |-> c.feed, room |-> c.room,
        reg |-> IF ownsTransaction(reg1, m.transaction, h)
                  THEN closeTransactionWithSuccess(reg1, oldest, h, ev)
                  ELSE reg1,
        ret |-> <<ev>>,
        emitted |-> IF emit THEN <<ev>> ELSE << >>,
        threw |-> FALSE ]

\* a variant of Deliver that leaves the transaction open
Deliver_noClose(h, m, c, reg1, emit) ==
  LET ev == [event |-> c.event, data |-> c.data]
  IN  [ feed |-> c.feed, room |-> c.room, reg |-> reg1, ret |-> <<ev>>,
        emitted |-> IF emit THEN <<ev>> ELSE << >>, threw |-> FALSE ]

\* the delivery of a classified event: close the transaction, emit when not
\* owned, return the event.  ret is << >> for null, <<janode_event>> otherwise.
Deliver(h, m, c, reg1, emit) ==
  LET ev == [event |-> c.event, data |-> c.data]
  IN  [ feed |-> c.feed, room |-> c.room,
        reg |-> closeTransactionWithSuccess(reg1, m.transaction, h, ev),
        ret |-> <<ev>>,
        emitted |-> IF emit THEN <<ev>> ELSE << >>,
        threw |-> FALSE ]

\* what handleMessage leaves and returns when the message is not handled
NotHandled(fd, rm, reg, thrown) ==
  [feed |-> fd, room |-> rm, reg |-> reg, ret |-> << >>, emitted |-> << >>,
   threw |-> thrown]

\* the body of `if (plugindata && plugindata.data && plugindata.data.audiobridge)`
HandleDomainMessage(h, m, fd, rm, reg) ==
  LET emit == EmitFlag(reg, m.transaction, h)
      c == Classify(m, InitialData(m), fd, rm)
      reg1 == IF c.reject
                THEN closeTransactionWithError(reg, m.transaction, h, c.data)
                ELSE reg
  IN  IF c.threw THEN NotHandled(c.feed, c.room, reg1, TRUE)
      ELSE IF c.event # Null THEN Deliver(h, m, c, reg1, emit)
      ELSE NotHandled(c.feed, c.room, reg1, FALSE)

\* a variant of handleMessage that accepts every message with plugin data and
\* reads a missing tag as 'event'
handleMessage_defaultTag(h, m, fd, rm, reg) ==
  IF m.plugindata = "data"
    THEN HandleDomainMessage(
           h, [m EXCEPT !.audiobridge = IF Truthy(@) THEN @ ELSE "event"], fd, rm, reg)
    ELSE NotHandled(fd, rm, reg, FALSE)

\* handleMessage(janus_message) on handle h, whose feed and room are fd and
\* rm, with the registry reg
handleMessage(h, m, fd, rm, reg) ==
  IF InDomain(m)
    THEN HandleDomainMessage(h, m, fd, rm, reg)
    ELSE NotHandled(fd, rm, reg, FALSE)

(* ------------------------------------------------------------------ *)
(* Request builders                                                    *)
(* ------------------------------------------------------------------ *)

\* new Error(`unexpected response to ${body.request} request`)
UnexpectedResponse(body) ==
  ("message" :> <<"unexpected response to ", body["request"], " request">>)

Returned(d) == [ok |-> TRUE, value |-> d]
Thrown(e) == [ok |-> FALSE, value |-> e]

\* the optional fields configure() copies when they have the expected type
ConfigureFields ==
  << <<"display", "string">>, <<"muted", "boolean">>, <<"quality", "number">>,
     <<"volume", "number">>, <<"record", "boolean">>, <<"filename", "string">>,
     <<"prebuffer", "number">>, <<"group", "string">> >>

RECURSIVE CopyTyped(_, _, _, _)
\* if (typeof p.k === type) body.k = p.k, for the fields from index i on
CopyTyped(fields, i, p, body) ==
  IF i > Len(fields) THEN body
  ELSE CopyTyped(fields, i + 1, p,
         PutIf(Typeof(Get(p, fields[i][1])) = fields[i][2],
               body, fields[i][1], Get(p, fields[i][1])))

RECURSIVE CopyDefined(_, _, _, _)
\* if (typeof body.k !== 'undefined') evtdata.k = body.k, for the fields from i on
CopyDefined(fields, i, body, evtdata) ==
  IF i > Len(fields) THEN evtdata
  ELSE CopyDefined(fields, i + 1, body,
         PutIf(Typeof(Get(body, fields[i][1])) # "undefined",
               evtdata, fields[i][1], Get(body, fields[i][1])))

\* configure(): the request body
configureBody(p) ==
  CopyTyped(ConfigureFields, 1, p, ("request" :> REQUEST_CONFIGURE))

\* a variant of configureResult that fails when the handle is not bound
configureResult_requireBound(body, resp, fd, rm) ==
  IF resp.event = PLUGIN_EVENT.CONFIGURED /\ fd # Null /\ rm # Null
    THEN Returned(CopyDefined(ConfigureFields, 1, body,
                    Put(Put(resp.data, "feed", fd), "room", rm)))
    ELSE Thrown(UnexpectedResponse(body))

\* a variant of configureResult that does not echo the requested fields
configureResult_noEcho(body, resp, fd, rm) ==
  IF resp.event = PLUGIN_EVENT.CONFIGURED
    THEN Returned(Put(Put(resp.data, "feed", fd), "room", rm))
    ELSE Thrown(UnexpectedResponse(body))

\* configure(): after the response; fd and rm are this.feed and this.room then
configureResult(body, resp, fd, rm) ==
  IF resp.event = PLUGIN_EVENT.CONFIGURED
    THEN Returned(CopyDefined(ConfigureFields, 1, body,
                    Put(Put(resp.data, "feed", fd), "room", rm)))
    ELSE Thrown(UnexpectedResponse(body))

\* if (event === kind) return evtdata; throw new Error(`unexpected response ...`)
Expect(kind, body, resp) ==
  IF resp.event = kind THEN Returned(resp.data) ELSE Thrown(UnexpectedResponse(body))

\* { request, room }
RoomBody(request, p) == ("request" :> request) @@ ("room" :> Get(p, "room"))

\* a variant of WithSecret that copies the secret whenever one is passed
WithSecret_anyType(p, body) ==
  PutIf(Get(p, "secret") # Undef, body, "secret", Get(p, "secret"))

\* if (typeof secret === 'string') body.secret = secret
WithSecret(p, body) ==
  PutIf(Typeof(Get(p, "secret")) = "string", body, "secret", Get(p, "secret"))

\* the optional fields join() copies when they have the expected type
JoinFields ==
  << <<"display", "string">>, <<"muted", "boolean">>, <<"pin", "string">>,
     <<"token", "string">>, <<"quality", "number">>, <<"volume", "number">>,
     <<"record", "boolean">>, <<"filename", "string">>, <<"group", "string">> >>

\* join({ room, feed = 0, ... }): the request body
joinBody(p) ==
  LET feed == IF Get(p, "feed") = Undef THEN "0" ELSE Get(p, "feed")
      rtp == Get(p, "rtp_participant")
      b == CopyTyped(JoinFields, 1, p, Put(RoomBody(REQUEST_JOIN, p), "id", feed))
  IN  IF Typeof(rtp) = "object" /\ Truthy(rtp) THEN Put(b, "rtp", rtp)
      ELSE IF Typeof(rtp) = "boolean" /\ Truthy(rtp) THEN Put(b, "rtp", "{}")
      ELSE b

joinResult(body, resp) == Expect(PLUGIN_EVENT.JOINED, body, resp)

\* audioHangup()
audioHangupBody(p) == ("request" :> REQUEST_AUDIO_HANGUP)
audioHangupResult(body, resp) == Expect(PLUGIN_EVENT.AUDIO_HANGINGUP, body, resp)

\* leave()
leaveBody(p) == ("request" :> REQUEST_LEAVE)
leaveResult(body, resp) == Expect(PLUGIN_EVENT.LEAVING, body, resp)

\* listParticipants({ room, secret })
listParticipantsBody(p) == WithSecret(p, RoomBody(REQUEST_LIST_PARTICIPANTS, p))
listParticipantsResult(body, resp) == Expect(PLUGIN_EVENT.PARTICIPANTS_LIST, body, resp)

\* kick({ room, feed, secret }): the request body
kickBody(p) == WithSecret(p, Put(RoomBody(REQUEST_KICK, p), "id", Get(p, "feed")))

\* a variant of kickResult that returns the service's data as it is
kickResult_asAnswered(body, resp) == Expect(PLUGIN_EVENT.SUCCESS, body, resp)

\* kick(): after the response; evtdata.room = body.room; evtdata.feed = body.id
kickResult(body, resp) ==
  IF resp.event = PLUGIN_EVENT.SUCCESS
    THEN Returned(Put(Put(resp.data, "room", body["room"]), "feed", body["id"]))
    ELSE Thrown(UnexpectedResponse(body))

\* exists({ room })
existsBody(p) == RoomBody(REQUEST_EXISTS, p)
existsResult(body, resp) == Expect(PLUGIN_EVENT.EXISTS, body, resp)

\* list()
listBody(p) == ("request" :> REQUEST_LIST_ROOMS)
listResult(body, resp) == Expect(PLUGIN_EVENT.ROOMS_LIST, body, resp)

\* the optional fields create() copies: parameter, expected type, body key
CreateFields ==
  << <<"description", "string", "description">>, <<"permanent", "boolean", "permanent">>,
     <<"sampling_rate", "number", "sampling">>, <<"is_private", "boolean", "is_private">>,
     <<"secret", "string", "secret">>, <<"pin", "string", "pin">>,
     <<"record", "boolean", "record">>, <<"filename", "string", "record_file">>,
     <<"prebuffer", "number", "default_prebuffering">>,
     <<"allow_rtp", "boolean", "allow_rtp_participants">> >>

RECURSIVE CopyTypedAs(_, _, _, _)
\* if (typeof p.k === type) body.key = p.k, for the fields from index i on
CopyTypedAs(fields, i, p, body) ==
  IF i > Len(fields) THEN body
  ELSE CopyTypedAs(fields, i + 1, p,
         PutIf(Typeof(Get(p, fields[i][1])) = fields[i][2],
               body, fields[i][3], Get(p, fields[i][1])))

\* create({ room, description, ..., groups }): the request body
createBody(p) ==
  PutIf(IsArray(Get(p, "groups")),
        CopyTypedAs(CreateFields, 1, p, RoomBody(REQUEST_CREATE, p)),
        "groups", Get(p, "groups"))

createResult(body, resp) == Expect(PLUGIN_EVENT.CREATED, body, resp)

\* destroy({ room, permanent, secret })
destroyBody(p) ==
  WithSecret(p, PutIf(Typeof(Get(p, "permanent")) = "boolean",
                      RoomBody(REQUEST_DESTROY, p), "permanent", Get(p, "permanent")))

destroyResult(body, resp) == Expect(PLUGIN_EVENT.DESTROYED, body, resp)

\* allow({ room, action, list, secret }): if (list && list.length > 0)
allowBody(p) ==
  LET list == Get(p, "list")
  IN  WithSecret(p, PutIf(Truthy(list) /\ HasLength(list),
                          Put(RoomBody(REQUEST_ALLOW, p), "action", Get(p, "action")),
                          "allowed", list))

\* a variant of allowResult that returns whatever the transaction resolved with
allowResult_anyKind(body, resp) == Returned(resp.data)

allowResult(body, resp) == Expect(PLUGIN_EVENT.SUCCESS, body, resp)

\* the fields startForward() copies: parameter, expected type, body key
StartForwardFields ==
  << <<"always", "boolean", "always_on">>, <<"host", "string", "host">>,
     <<"audio_port", "number", "port">>, <<"group", "string", "group">>,
     <<"secret", "string", "secret">> >>

\* startForward({ room, always, host, audio_port, group, secret })
startForwardBody(p) ==
  CopyTypedAs(StartForwardFields, 1, p, RoomBody(REQUEST_RTP_FWD_START, p))

startForwardResult(body, resp) == Expect(PLUGIN_EVENT.RTP_FWD, body, resp)

\* a variant of stopForwardBody that sends the stream only when it is a number
stopForwardBody_numericStream(p) ==
  WithSecret(p, PutIf(Typeof(Get(p, "stream")) = "number",
                      RoomBody(REQUEST_RTP_FWD_STOP, p), "stream_id", Get(p, "stream")))

\* stopForward({ room, stream, secret })
stopForwardBody(p) ==
  WithSecret(p, Put(RoomBody(REQUEST_RTP_FWD_STOP, p), "stream_id", Get(p, "stream")))

stopForwardResult(body, resp) == Expect(PLUGIN_EVENT.RTP_FWD, body, resp)

\* listForward({ room, secret })
listForwardBody(p) == WithSecret(p, RoomBody(REQUEST_RTP_FWD_LIST, p))
listForwardResult(body, resp) == Expect(PLUGIN_EVENT.FWD_LIST, body, resp)

\* the body a request builder sends
BuildBody(op, p) ==
  CASE op = REQUEST_JOIN -> joinBody(p)
    [] op = REQUEST_CONFIGURE -> configureBody(p)
    [] op = REQUEST_AUDIO_HANGUP -> audioHangupBody(p)
    [] op = REQUEST_LEAVE -> leaveBody(p)
    [] op = REQUEST_LIST_PARTICIPANTS -> listParticipantsBody(p)
    [] op = REQUEST_KICK -> kickBody(p)
    [] op = REQUEST_EXISTS -> existsBody(p)
    [] op = REQUEST_LIST_ROOMS -> listBody(p)
    [] op = REQUEST_CREATE -> createBody(p)
    [] op = REQUEST_DESTROY -> destroyBody(p)
    [] op = REQUEST_ALLOW -> allowBody(p)
    [] op = REQUEST_RTP_FWD_START -> startForwardBody(p)
    [] op = REQUEST_RTP_FWD_STOP -> stopForwardBody(p)
    [] op = REQUEST_RTP_FWD_LIST -> listForwardBody(p)

\* what the builder's caller gets once its transaction is completed: the
\* rejection's error, or what the code after `await this.message(body)` yields
Continuation(tx, fd, rm) ==
  IF tx.st = "rejected" THEN Thrown(tx.resp.data)
  ELSE CASE tx.op = REQUEST_JOIN -> joinResult(tx.body, tx.resp)
         [] tx.op = REQUEST_CONFIGURE -> configureResult(tx.body, tx.resp, fd, rm)
         [] tx.op = REQUEST_AUDIO_HANGUP -> audioHangupResult(tx.body, tx.resp)
         [] tx.op = REQUEST_LEAVE -> leaveResult(tx.body, tx.resp)
         [] tx.op = REQUEST_LIST_PARTICIPANTS -> listParticipantsResult(tx.body, tx.resp)
         [] tx.op = REQUEST_KICK -> kickResult(tx.body, tx.resp)
         [] tx.op = REQUEST_EXISTS -> existsResult(tx.body, tx.resp)
         [] tx.op = REQUEST_LIST_ROOMS -> listResult(tx.body, tx.resp)
         [] tx.op = REQUEST_CREATE -> createResult(tx.body, tx.resp)
         [] tx.op = REQUEST_DESTROY -> destroyResult(tx.body, tx.resp)
         [] tx.op = REQUEST_ALLOW -> allowResult(tx.body, tx.resp)
         [] tx.op = REQUEST_RTP_FWD_START -> startForwardResult(tx.body, tx.resp)
         [] tx.op = REQUEST_RTP_FWD_STOP -> stopForwardResult(tx.body, tx.resp)
         [] tx.op = REQUEST_RTP_FWD_LIST -> listForwardResult(tx.body, tx.resp)

(* ------------------------------------------------------------------ *)
(* The inputs of the model                                             *)
(* ------------------------------------------------------------------ *)

P1 == [id |-> "9", display |-> "Bob", muted |-> Undef, setup |-> Undef, rtp |-> Undef]
P2 == [id |-> "5", display |-> Undef, muted |-> "true", setup |-> "false", rtp |-> "{rtp}"]
F1 == [ip |-> "10.0.0.1", port |-> "5000", stream_id |-> "5", always_on |-> "true", group |-> "g1"]
F2 == [ip |-> "10.0.0.2", port |-> "5000", stream_id |-> "7", always_on |-> "false", group |-> Undef]

ParticipantArrays == {NoArray, Arr(<< >>), Arr(<<P1>>), Arr(<<P1, P2>>)}
F3 == [ip |-> "10.0.0.3", port |-> "5000", stream_id |-> "9", always_on |-> "false", group |-> ""]
ForwarderArrays == {NoArray, Arr(<< >>), Arr(<<F1, F2>>), Arr(<<F2, F3, F1>>)}

\* messages that are not AudioBridge plugin messages
ForeignMsgs ==
  { [BaseMsg EXCEPT !.plugindata = "absent"],
    [BaseMsg EXCEPT !.plugindata = "nodata"],
    [BaseMsg EXCEPT !.id = "42", !.room = "R1", !.participants = Arr(<< >>)],
    [BaseMsg EXCEPT !.kicked = "42"],
    [BaseMsg EXCEPT !.error = "not found", !.error_code = "404"] }

SuccessMsgs ==
  { [BaseMsg EXCEPT !.audiobridge = "success", !.room = "R1", !.exists = e,
       !.list = l, !.stream_id = s, !.host = IF s = Undef THEN Undef ELSE "10.0.0.1",
       !.port = IF s = Undef THEN Undef ELSE "5000", !.group = g, !.allowed = a] :
      e \in {Undef, "true"}, l \in {Undef, "[rooms]"}, s \in {Undef, "5"},
      g \in {Undef, "g1"}, a \in {Undef, "[tokens]"} }
  \cup { [BaseMsg EXCEPT !.audiobridge = "success"],
         [BaseMsg EXCEPT !.audiobridge = "success", !.room = "R1", !.stream_id = "0",
            !.host = "10.0.0.1", !.port = "5000"] }

JoinedMsgs ==
  { [BaseMsg EXCEPT !.audiobridge = "joined", !.id = i, !.room = r, !.participants = ps] :
      i \in {Undef, Null, "42"}, r \in {Undef, Null, "R1"},
      ps \in ParticipantArrays }
  \cup { [BaseMsg EXCEPT !.audiobridge = "joined", !.id = "42", !.room = "R1",
            !.display = "Ann", !.muted = "false", !.setup = "true", !.rtp = "{rtp}",
            !.participants = Arr(<<P1, P2>>)],
         [BaseMsg EXCEPT !.audiobridge = "joined", !.id = "7", !.room = "R2",
            !.participants = Arr(<<P1>>)],
         [BaseMsg EXCEPT !.audiobridge = "joined", !.room = "R1",
            !.participants = Arr(<<P2>>)] }

ParticipantsMsgs ==
  { [BaseMsg EXCEPT !.audiobridge = "participants", !.room = "R1", !.participants = ps] :
      ps \in ParticipantArrays }

RoomMsgs ==
  { [BaseMsg EXCEPT !.audiobridge = "created", !.room = "R1", !.permanent = p] :
      p \in {Undef, "true"} }
  \cup { [BaseMsg EXCEPT !.audiobridge = "destroyed", !.room = "R1"] }

LeaveMsgs ==
  { [BaseMsg EXCEPT !.audiobridge = a, !.room = "R1", !.id = i] :
      a \in {"hangingup", "left"}, i \in {Undef, "0", "9"} }

ForwardersMsgs ==
  { [BaseMsg EXCEPT !.audiobridge = "forwarders", !.room = "R1", !.rtp_forwarders = fs] :
      fs \in ForwarderArrays }

\* the result / participants / leaving / kicked fields of an 'event' message,
\* at most two of them present
EventShapes ==
  { x \in { [result |-> r, participants |-> ps, leaving |-> l, kicked |-> k] :
              r \in {Undef, "ok", "no"}, ps \in {NoArray, Arr(<<P1>>), Arr(<<P1, P2>>)},
              l \in {Undef, "9"}, k \in {Undef, "42", "9"} } :
      Cardinality({f \in {"result", "leaving", "kicked"} : x[f] # Undef})
        + (IF x.participants.def THEN 1 ELSE 0) <= 2 }

\* those with at most one of the fields
SimpleEventShapes ==
  { x \in EventShapes :
      Cardinality({f \in {"result", "leaving", "kicked"} : x[f] # Undef})
        + (IF x.participants.def THEN 1 ELSE 0) <= 1 }

EventMsg(e, c, s) ==
  [BaseMsg EXCEPT !.audiobridge = "event", !.room = "R1", !.error = e,
     !.error_code = c, !.result = s.result, !.participants = s.participants,
     !.leaving = s.leaving, !.kicked = s.kicked]

EventMsgs ==
  { EventMsg(e[1], e[2], s) :
      e \in {<<Undef, Undef>>, <<"not found", "404">>}, s \in EventShapes }
  \cup { EventMsg(e[1], e[2], s) :
      e \in {<<Undef, "404">>, <<"", "404">>, <<"not found", Undef>>},
      s \in SimpleEventShapes }
  \cup { [BaseMsg EXCEPT !.audiobridge = "event", !.room = "R1", !.kicked = Null],
         [BaseMsg EXCEPT !.audiobridge = "event", !.result = "ok", !.jsep = "{jsep}"],
         [BaseMsg EXCEPT !.audiobridge = "event", !.result = "ok"] }

OtherMsgs ==
  { [BaseMsg EXCEPT !.audiobridge = "talking", !.room = "R1", !.id = "42"],
    [BaseMsg EXCEPT !.audiobridge = "announcement-started", !.room = "R1"] }

\* every message, before its transaction identifier is chosen
Messages ==
  ForeignMsgs \cup SuccessMsgs \cup JoinedMsgs \cup ParticipantsMsgs \cup RoomMsgs
    \cup LeaveMsgs \cup ForwardersMsgs \cup EventMsgs \cup OtherMsgs

\* the parameters callers pass to configure()
ConfigureParams ==
  { ("muted" :> "true") @@ ("volume" :> "50"),
    ("display" :> "Bob") @@ ("quality" :> "5") @@ ("record" :> "false")
      @@ ("filename" :> "a.wav") @@ ("prebuffer" :> "9") @@ ("group" :> "g1"),
    ("display" :> "Bob") @@ ("muted" :> "yes") @@ ("quality" :> "5")
      @@ ("prebuffer" :> "fast") @@ ("group" :> "g1") @@ ("pin" :> "1234") }

\* the requests of the model: the operation and its parameters
Requests ==
  { <<REQUEST_CONFIGURE, p>> : p \in ConfigureParams }

\* one call of each request builder, with well-formed parameters
OpsRequests ==
  { <<REQUEST_JOIN, ("room" :> "R1") @@ ("display" :> "Ann")>>,
    <<REQUEST_CONFIGURE, ("muted" :> "true")>>,
    <<REQUEST_AUDIO_HANGUP, EmptyObj>>,
    <<REQUEST_LEAVE, EmptyObj>>,
    <<REQUEST_LIST_PARTICIPANTS, ("room" :> "R1")>>,
    <<REQUEST_KICK, ("room" :> "R1") @@ ("feed" :> "7")>>,
    <<REQUEST_EXISTS, ("room" :> "R1")>>,
    <<REQUEST_LIST_ROOMS, EmptyObj>>,
    <<REQUEST_CREATE, ("room" :> "R1") @@ ("permanent" :> "true")>>,
    <<REQUEST_DESTROY, ("room" :> "R1")>>,
    <<REQUEST_ALLOW, ("room" :> "R1") @@ ("action" :> "add") @@ ("list" :> "[tokens]")>>,
    <<REQUEST_RTP_FWD_START,
      ("room" :> "R1") @@ ("host" :> "10.0.0.1") @@ ("audio_port" :> "5000")>>,
    <<REQUEST_RTP_FWD_STOP, ("room" :> "R1") @@ ("stream" :> "5")>>,
    <<REQUEST_RTP_FWD_LIST, ("room" :> "R1")>> }

\* the answers of the service to them: one message of each kind
OpsMessages ==
  { [BaseMsg EXCEPT !.audiobridge = "success"],
    [BaseMsg EXCEPT !.audiobridge = "success", !.room = "R9", !.allowed = "[tokens]"],
    [BaseMsg EXCEPT !.audiobridge = "success", !.room = "R1", !.exists = "true"],
    [BaseMsg EXCEPT !.audiobridge = "success", !.list = "[rooms]"],
    [BaseMsg EXCEPT !.audiobridge = "success", !.room = "R1", !.stream_id = "5",
       !.host = "10.0.0.1", !.port = "5000"],
    [BaseMsg EXCEPT !.audiobridge = "joined", !.id = "42", !.room = "R2",
       !.participants = Arr(<<P1>>)],
    [BaseMsg EXCEPT !.audiobridge = "participants", !.room = "R1",
       !.participants = Arr(<<P1, P2>>)],
    [BaseMsg EXCEPT !.audiobridge = "created", !.room = "R1", !.permanent = "true"],
    [BaseMsg EXCEPT !.audiobridge = "destroyed", !.room = "R1"],
    [BaseMsg EXCEPT !.audiobridge = "hangingup", !.room = "R2"],
    [BaseMsg EXCEPT !.audiobridge = "left", !.room = "R2"],
    [BaseMsg EXCEPT !.audiobridge = "forwarders", !.room = "R1",
       !.rtp_forwarders = Arr(<<F1, F2>>)],
    [BaseMsg EXCEPT !.audiobridge = "event", !.room = "R2", !.result = "ok"],
    [BaseMsg EXCEPT !.audiobridge = "event", !.error = "not found", !.error_code = "404"],
    [BaseMsg EXCEPT !.audiobridge = "talking", !.room = "R2", !.id = "42"] }

\* the values a caller may pass for one parameter: absent, null, strings,
\* numbers, booleans, an object and arrays
SampleValues ==
  {Undef, Null, "Bob", "", "5", "0", "true", "false", "{rtp}", "[tokens]", "[]"}

\* the parameters of each request builder
ParamNames ==
  [ op \in { REQUEST_JOIN, REQUEST_CONFIGURE, REQUEST_AUDIO_HANGUP, REQUEST_LEAVE,
             REQUEST_LIST_PARTICIPANTS, REQUEST_KICK, REQUEST_EXISTS,
             REQUEST_LIST_ROOMS, REQUEST_CREATE, REQUEST_DESTROY, REQUEST_ALLOW,
             REQUEST_RTP_FWD_START, REQUEST_RTP_FWD_STOP, REQUEST_RTP_FWD_LIST } |->
      CASE op = REQUEST_JOIN ->
             {"room", "feed", "display", "muted", "pin", "token", "quality", "volume",
              "record", "filename", "rtp_participant", "group"}
        [] op = REQUEST_CONFIGURE ->
             {"display", "muted", "quality", "volume", "record", "filename",
              "prebuffer", "group"}
        [] op = REQUEST_LIST_PARTICIPANTS -> {"room", "secret"}
        [] op = REQUEST_KICK -> {"room", "feed", "secret"}
        [] op = REQUEST_EXISTS -> {"room"}
        [] op = REQUEST_CREATE ->
             {"room", "description", "permanent", "sampling_rate", "is_private",
              "secret", "pin", "record", "filename", "prebuffer", "allow_rtp", "groups"}
        [] op = REQUEST_DESTROY -> {"room", "permanent", "secret"}
        [] op = REQUEST_ALLOW -> {"room", "action", "list", "secret"}
        [] op = REQUEST_RTP_FWD_START ->
             {"room", "always", "host", "audio_port", "group", "secret"}
        [] op = REQUEST_RTP_FWD_STOP -> {"room", "stream", "secret"}
        [] op = REQUEST_RTP_FWD_LIST -> {"room", "secret"}
        [] OTHER -> {} ]

\* every call of OpsRequests, and every call that differs from one of them in
\* the value passed for one parameter
BuildRequests ==
  OpsRequests
    \cup UNION { { <<r[1], (k :> v) @@ r[2]>> : k \in ParamNames[r[1]], v \in SampleValues } :
                 r \in OpsRequests }

\* the answers a sequential caller gets: an acknowledgement or an error
BuildMessages ==
  { [BaseMsg EXCEPT !.audiobridge = "success"],
    [BaseMsg EXCEPT !.audiobridge = "event", !.error = "not found", !.error_code = "404"] }

\* the calls of a participant: join a room, then configure
FlightRequests ==
  { <<REQUEST_JOIN, ("room" :> "R1")>>,
    <<REQUEST_CONFIGURE, ("muted" :> "true")>>,
    <<REQUEST_LEAVE, EmptyObj>> }

\* answers to them, notifications, and domain messages no sub-case matches
FlightMessages ==
  { [BaseMsg EXCEPT !.audiobridge = "joined", !.id = "42", !.room = "R1",
       !.participants = Arr(<<P1>>)],
    [BaseMsg EXCEPT !.audiobridge = "event", !.result = "ok"],
    [BaseMsg EXCEPT !.audiobridge = "event", !.error = "not found", !.error_code = "404"],
    [BaseMsg EXCEPT !.audiobridge = "left", !.room = "R1"],
    [BaseMsg EXCEPT !.audiobridge = "event", !.room = "R1", !.kicked = "42"],
    [BaseMsg EXCEPT !.audiobridge = "event", !.room = "R1", !.leaving = "9"],
    [BaseMsg EXCEPT !.audiobridge = "joined", !.room = "R1", !.participants = Arr(<<P1>>)],
    [BaseMsg EXCEPT !.audiobridge = "joined", !.room = "R1"],
    [BaseMsg EXCEPT !.audiobridge = "joined", !.room = "R1", !.participants = Arr(<< >>)],
    [BaseMsg EXCEPT !.audiobridge = "joined", !.room = "R1",
       !.participants = Arr(<<P1, P2>>)],
    [BaseMsg EXCEPT !.audiobridge = "event", !.room = "R1"],
    [BaseMsg EXCEPT !.audiobridge = "event", !.room = "R1", !.result = "no"],
    [BaseMsg EXCEPT !.audiobridge = "talking", !.room = "R1", !.id = "42"] }

(* ------------------------------------------------------------------ *)
(* State                                                               *)
(* ------------------------------------------------------------------ *)

VARIABLES
  attached,  \* the handles that exist
  feed,      \* this.feed of each handle
  room,      \* this.room of each handle
  reg,       \* the transaction registry
  nextTx,    \* the next transaction identifier
  phase,     \* "idle", "dispatched" (handleMessage has run), "resumed"
  lastH,     \* the handle the last message was dispatched to
  lastMsg,   \* the message of the current dispatch
  lastRet,   \* what handleMessage returned: << >> for null, or <<event>>
  emitted,   \* the events handleMessage emitted in the current dispatch
  threw,     \* whether handleMessage threw
  prev,      \* feed, room and ownership at the start of the current dispatch
  result,    \* what the resumed request builder returned or threw
  task,      \* example server: the task marker of scheduleBackEndConnection
  timers,    \* example server: the timeouts set and not yet fired
  attempts,  \* example server: the calls of initBackEnd and their connections
  janodeSession,        \* example server: the session of the back end
  janodeManagerHandle,  \* example server: the manager handle of the back end
  backStep,  \* example server: the last step of the back end
  owed,      \* example server: a CONNECTION_ERROR not yet followed by an attempt
  audioHandle,  \* example server: the audioHandle variable of the client's socket
  handleSt,     \* example server: the state of each audiobridge handle
  joins,        \* example server: the running handlers of the socket's join event
  reqs          \* example server: the running handlers of the other socket events

pluginVars ==
  <<attached, feed, room, reg, nextTx, phase, lastH, lastMsg, lastRet, emitted,
    threw, prev, result>>

backEndVars ==
  <<task, timers, attempts, janodeSession, janodeManagerHandle, backStep, owed>>

socketVars == <<audioHandle, handleSt, joins, reqs>>

serverVars == <<backEndVars, socketVars>>

vars == <<pluginVars, serverVars>>

\* the calls of initBackEnd that the model keeps apart
MaxAttempts == 2
Slots == 1 .. MaxAttempts

\* a call of initBackEnd: where it is suspended ("idle" when it has returned
\* or thrown) and the connection it obtained: "none", "open" (the
\* CONNECTION_ERROR handler is registered and has not run), "error" (it has
\* run) or "closed" (connection.close() was called)
NoAttempt == [pc |-> "idle", conn |-> "none"]

\* the handles a client's socket can attach
MaxHandles == 3
AudioHandles == {"a1", "a2", "a3"}

\* the handlers of one socket that can be suspended at the same time
MaxJoins == 2
JoinSlots == 1 .. MaxJoins
MaxRequests == 1
RequestSlots == 1 .. MaxRequests

\* a handler of a socket event: where it is suspended ("idle" when it has
\* returned), the operation it called and the handle it called it on, how
\* the operation settled ("none" when it was not called, "pending",
\* "resolved", "rejected"), and the replies it has sent on the socket
NoHandler ==
  [pc |-> "idle", op |-> Null, h |-> Undef, outcome |-> "none", sent |-> << >>]

\* a client's socket after its connection handler has run
InitFrontEnd ==
  /\ audioHandle = Undef
  /\ handleSt = [h \in AudioHandles |-> "none"]
  /\ joins = [j \in JoinSlots |-> NoHandler]
  /\ reqs = [r \in RequestSlots |-> NoHandler]

\* the back end after main() has run: the first connection is scheduled
InitBackEnd ==
  /\ task = "timeout"
  /\ timers = 1
  /\ attempts = [a \in Slots |-> NoAttempt]
  /\ janodeSession = Undef
  /\ janodeManagerHandle = Undef
  /\ backStep = "main"
  /\ owed = FALSE

\* the example server after main() has run and a client has connected
InitServer == InitBackEnd /\ InitFrontEnd

NoPrev == [feed |-> Null, room |-> Null, owned |-> FALSE]
NoResult ==
  [tx |-> NoTx, op |-> Null, params |-> EmptyObj, ok |-> FALSE, value |-> EmptyObj]

InitPlugin(hs) ==
  /\ attached = hs
  /\ feed = [h \in Handles |-> Null]
  /\ room = [h \in Handles |-> Null]
  /\ reg = [t \in TxIds |-> FreeTx]
  /\ nextTx = 1
  /\ phase = "idle"
  /\ lastH = "h1"
  /\ lastMsg = BaseMsg
  /\ lastRet = << >>
  /\ emitted = << >>
  /\ threw = FALSE
  /\ prev = NoPrev
  /\ result = NoResult

InitWith(hs) == InitPlugin(hs) /\ InitServer

Init == InitWith({"h1"})

\* a request builder is called on handle h: the body is built and sent, the
\* transaction is registered
Request(h, op, p) ==
  /\ phase = "idle"
  /\ nextTx <= MaxTx
  /\ reg' = [reg EXCEPT ![nextTx] =
               [FreeTx EXCEPT !.st = "pending", !.owner = h, !.op = op,
                              !.params = p, !.body = BuildBody(op, p)]]
  /\ nextTx' = nextTx + 1
  /\ UNCHANGED <<attached, feed, room, phase, lastH, lastMsg, lastRet, emitted,
                 threw, prev, result>>
  /\ UNCHANGED serverVars

\* a variant of Dispatch in which feed and room are shared by the handles
Dispatch_sharedState(h, mb, t) ==
  /\ phase = "idle"
  /\ LET m == [mb EXCEPT !.transaction = t]
         o == handleMessage(h, m, feed[h], room[h], reg)
     IN  /\ feed' = [g \in Handles |-> o.feed]
         /\ room' = [g \in Handles |-> o.room]
         /\ reg' = o.reg
         /\ lastRet' = o.ret
         /\ emitted' = o.emitted
         /\ threw' = o.threw
         /\ lastMsg' = m
         /\ prev' = [feed |-> feed[h], room |-> room[h],
                     owned |-> ownsTransaction(reg, t, h)]
  /\ lastH' = h
  /\ phase' = "dispatched"
  /\ UNCHANGED <<attached, nextTx, result>>
  /\ UNCHANGED serverVars

\* the transport hands message mb, carrying transaction t, to handle h
Dispatch(h, mb, t) ==
  /\ phase = "idle"
  /\ LET m == [mb EXCEPT !.transaction = t]
         o == handleMessage(h, m, feed[h], room[h], reg)
     IN  /\ feed' = [feed EXCEPT ![h] = o.feed]
         /\ room' = [room EXCEPT ![h] = o.room]
         /\ reg' = o.reg
         /\ lastRet' = o.ret
         /\ emitted' = o.emitted
         /\ threw' = o.threw
         /\ lastMsg' = m
         /\ prev' = [feed |-> feed[h], room |-> room[h],
                     owned |-> ownsTransaction(reg, t, h)]
  /\ lastH' = h
  /\ phase' = "dispatched"
  /\ UNCHANGED <<attached, nextTx, result>>
  /\ UNCHANGED serverVars

\* the transaction completed by the current dispatch, if any
Completed ==
  { t \in TxIds : t = lastMsg.transaction /\ reg[t].st \in {"resolved", "rejected"} }

\* the builder awaiting the completed transaction runs on
Resume(t) ==
  /\ phase = "dispatched"
  /\ t \in Completed
  /\ result' = [tx |-> t, op |-> reg[t].op, params |-> reg[t].params]
                 @@ Continuation(reg[t], feed[reg[t].owner], room[reg[t].owner])
  /\ reg' = [reg EXCEPT ![t] = [FreeTx EXCEPT !.st = "closed", !.owner = reg[t].owner,
                                               !.n = reg[t].n]]
  /\ phase' = "resumed"
  /\ UNCHANGED <<attached, feed, room, nextTx, lastH, lastMsg, lastRet, emitted,
                 threw, prev>>
  /\ UNCHANGED serverVars

\* the turn of the event loop ends
TurnEnd ==
  /\ \/ phase = "resumed"
     \/ phase = "dispatched" /\ Completed = {}
  /\ phase' = "idle"
  /\ lastMsg' = BaseMsg
  /\ lastRet' = << >>
  /\ emitted' = << >>
  /\ threw' = FALSE
  /\ prev' = NoPrev
  /\ result' = NoResult
  /\ UNCHANGED <<attached, feed, room, reg, nextTx, lastH>>
  /\ UNCHANGED serverVars

\* the transaction identifiers a message may carry
Carried == {NoTx, ForeignTx} \cup {t \in TxIds : t < nextTx}

Next ==
  \/ \E h \in attached, r \in Requests : Request(h, r[1], r[2])
  \/ \E h \in attached, mb \in Messages, t \in Carried : Dispatch(h, mb, t)
  \/ \E t \in TxIds : Resume(t)
  \/ TurnEnd

Spec == Init /\ [][Next]_vars

\* the handle with every request builder in use
NextOps ==
  \/ \E h \in attached, r \in OpsRequests : Request(h, r[1], r[2])
  \/ \E h \in attached, mb \in OpsMessages, t \in Carried : Dispatch(h, mb, t)
  \/ \E t \in TxIds : Resume(t)
  \/ TurnEnd

SpecOps == Init /\ [][NextOps]_vars

\* no request is awaiting its answer
NonePending == \A t \in TxIds : reg[t].st # "pending"

\* a caller that awaits each call before making the next, passing any
\* parameters
NextBuild ==
  \/ \E h \in attached, r \in BuildRequests : NonePending /\ Request(h, r[1], r[2])
  \/ \E h \in attached, mb \in BuildMessages, t \in Carried : Dispatch(h, mb, t)
  \/ \E t \in TxIds : Resume(t)
  \/ TurnEnd

SpecBuild == Init /\ [][NextBuild]_vars

\* a participant with several requests in flight
NextFlight ==
  \/ \E h \in attached, r \in FlightRequests : Request(h, r[1], r[2])
  \/ \E h \in attached, mb \in FlightMessages, t \in Carried : Dispatch(h, mb, t)
  \/ \E t \in TxIds : Resume(t)
  \/ TurnEnd

SpecFlight == Init /\ [][NextFlight]_vars

\* a handle that only receives: no request is made
NextMsgs ==
  \/ \E h \in attached, mb \in Messages, t \in Carried : Dispatch(h, mb, t)
  \/ TurnEnd

SpecMsgs == Init /\ [][NextMsgs]_vars

\* the handle is bound to a feed in a room
Bound(h) == ~(feed[h] \in {Null, Undef}) /\ ~(room[h] \in {Null, Undef})

\* a participant that calls configure() only while its handle is bound
NextBound ==
  \/ \E h \in attached, r \in Requests : Bound(h) /\ Request(h, r[1], r[2])
  \/ \E h \in attached, mb \in FlightMessages, t \in Carried : Dispatch(h, mb, t)
  \/ \E t \in TxIds : Resume(t)
  \/ TurnEnd

SpecBound == Init /\ [][NextBound]_vars

\* two handles of one connection
InitTwo == InitWith(Handles)

SpecTwo == InitTwo /\ [][NextFlight]_vars

(* ------------------------------------------------------------------ *)
(* Example server: the back end                                        *)
(* ------------------------------------------------------------------ *)

\* a variant of scheduleBackEndConnection without the test of the task marker
scheduleBackEndConnection_unguarded(t, n) ==
  [task |-> "timeout", timers |-> n + 1]

\* scheduleBackEndConnection called with the task marker t and n timeouts
\* set: a no-op while the marker is set, else a timeout is set and stored in
\* the marker
scheduleBackEndConnection(t, n) ==
  IF t # Null
    THEN [task |-> t, timers |-> n]
    ELSE [task |-> "timeout", timers |-> n + 1]

\* a variant of AttemptRejected that schedules nothing
AttemptRejected_giveUp(a, c) ==
  /\ attempts' = [attempts EXCEPT ![a] = [pc |-> "idle", conn |-> c]]
  /\ task' = Null
  /\ timers' = timers
  /\ backStep' = "failed"
  /\ UNCHANGED <<janodeSession, janodeManagerHandle, owed>>

\* initBackEnd throws in call a, whose connection becomes c: the catch block
\* has closed the connection and told the clients; the rejection handler of
\* the timeout clears the task marker and schedules the next connection
AttemptRejected(a, c) ==
  LET s == scheduleBackEndConnection(Null, timers)
  IN  /\ attempts' = [attempts EXCEPT ![a] = [pc |-> "idle", conn |-> c]]
      /\ task' = s.task
      /\ timers' = s.timers
      /\ backStep' = "failed"
      /\ UNCHANGED <<janodeSession, janodeManagerHandle, owed>>

\* the connection of a call of initBackEnd after connection.close() in the
\* catch block
Closed(c) == IF c = "open" THEN "closed" ELSE c

\* a timeout fires: initBackEnd is called and suspends in Janode.connect
TimeoutFires(a) ==
  /\ timers > 0
  /\ attempts[a].pc = "idle" /\ attempts[a].conn # "open"
  /\ timers' = timers - 1
  /\ attempts' = [attempts EXCEPT ![a] = [pc |-> "connect", conn |-> "none"]]
  /\ backStep' = "started"
  /\ owed' = FALSE
  /\ UNCHANGED <<task, janodeSession, janodeManagerHandle>>
  /\ UNCHANGED <<pluginVars, socketVars>>

\* Janode.connect settles: on success the handlers of the connection are
\* registered and connection.create() is called
ConnectSettles(a, ok) ==
  /\ attempts[a].pc = "connect"
  /\ IF ok
       THEN /\ attempts' = [attempts EXCEPT ![a] = [pc |-> "create", conn |-> "open"]]
            /\ backStep' = "connected"
            /\ UNCHANGED <<task, timers, janodeSession, janodeManagerHandle, owed>>
       ELSE AttemptRejected(a, "none")
  /\ UNCHANGED <<pluginVars, socketVars>>

\* connection.create() settles: on success the session is stored and
\* session.attach() is called
CreateSettles(a, ok) ==
  /\ attempts[a].pc = "create"
  /\ IF ok
       THEN /\ attempts' = [attempts EXCEPT ![a].pc = "attach"]
            /\ janodeSession' = "session"
            /\ backStep' = "created"
            /\ UNCHANGED <<task, timers, janodeManagerHandle, owed>>
       ELSE AttemptRejected(a, Closed(attempts[a].conn))
  /\ UNCHANGED <<pluginVars, socketVars>>

\* session.attach() settles: on success the manager handle is stored,
\* initBackEnd returns and the timeout's handler clears the task marker
AttachSettles(a, ok) ==
  /\ attempts[a].pc = "attach"
  /\ IF ok
       THEN /\ attempts' = [attempts EXCEPT ![a].pc = "idle"]
            /\ janodeManagerHandle' = "manager"
            /\ task' = Null
            /\ backStep' = "attached"
            /\ UNCHANGED <<timers, janodeSession, owed>>
       ELSE AttemptRejected(a, Closed(attempts[a].conn))
  /\ UNCHANGED <<pluginVars, socketVars>>

\* the connection of call a reports CONNECTION_ERROR: the clients are told
\* and a connection is scheduled; the handler runs once
ConnectionError(a) ==
  LET s == scheduleBackEndConnection(task, timers)
  IN  /\ attempts[a].conn = "open"
      /\ attempts' = [attempts EXCEPT ![a].conn = "error"]
      /\ task' = s.task
      /\ timers' = s.timers
      /\ backStep' = "error"
      /\ owed' = TRUE
      /\ UNCHANGED <<janodeSession, janodeManagerHandle>>
      /\ UNCHANGED <<pluginVars, socketVars>>

NextBackEnd ==
  \/ \E a \in Slots : TimeoutFires(a)
  \/ \E a \in Slots, ok \in BOOLEAN : ConnectSettles(a, ok)
  \/ \E a \in Slots, ok \in BOOLEAN : CreateSettles(a, ok)
  \/ \E a \in Slots, ok \in BOOLEAN : AttachSettles(a, ok)
  \/ \E a \in Slots : ConnectionError(a)

\* the steps of the back end that the event loop and the library owe: a
\* timeout that was set fires, an awaited call settles
BackEndProgress ==
  \/ \E a \in Slots : TimeoutFires(a)
  \/ \E a \in Slots, ok \in BOOLEAN : ConnectSettles(a, ok)
  \/ \E a \in Slots, ok \in BOOLEAN : CreateSettles(a, ok)
  \/ \E a \in Slots, ok \in BOOLEAN : AttachSettles(a, ok)

\* every timeout fires and every awaited call of the back end settles; a
\* connection is free to report an error or not
SpecBackEnd == Init /\ [][NextBackEnd]_vars /\ WF_vars(BackEndProgress)

(* ------------------------------------------------------------------ *)
(* Example server: the handlers of a client's socket                   *)
(* ------------------------------------------------------------------ *)

\* the socket events other than join that call an operation of a handle:
\* the handle they use, the event of their success reply, and whether they
\* await the operation before replying
SocketOps ==
  [ev \in {"configure", "hangup", "leave", "list-participants", "kick", "exists",
           "list-rooms", "create", "destroy", "allow", "rtp-fwd-start",
           "rtp-fwd-stop", "rtp-fwd-list"} |->
     CASE ev = "configure" -> [handle |-> "audio", reply |-> "configured", awaited |-> TRUE]
       [] ev = "hangup" -> [handle |-> "audio", reply |-> "hangingup", awaited |-> TRUE]
       [] ev = "leave" -> [handle |-> "audio", reply |-> "leaving", awaited |-> TRUE]
       [] ev = "list-participants" ->
            [handle |-> "manager", reply |-> "participants-list", awaited |-> TRUE]
       [] ev = "kick" -> [handle |-> "manager", reply |-> "peer-kicked", awaited |-> TRUE]
       [] ev = "exists" -> [handle |-> "manager", reply |-> "exists", awaited |-> TRUE]
       [] ev = "list-rooms" -> [handle |-> "manager", reply |-> "rooms-list", awaited |-> TRUE]
       [] ev = "create" -> [handle |-> "manager", reply |-> "created", awaited |-> TRUE]
       [] ev = "destroy" -> [handle |-> "manager", reply |-> "destroyed", awaited |-> TRUE]
       [] ev = "allow" -> [handle |-> "manager", reply |-> "allowed", awaited |-> FALSE]
       [] ev = "rtp-fwd-start" ->
            [handle |-> "manager", reply |-> "rtp-fwd-started", awaited |-> TRUE]
       [] ev = "rtp-fwd-stop" ->
            [handle |-> "manager", reply |-> "rtp-fwd-stopped", awaited |-> TRUE]
       [] ev = "rtp-fwd-list" ->
            [handle |-> "manager", reply |-> "rtp-fwd-list", awaited |-> TRUE]]

\* checkSessions: the message of the error it replies with, or Null when it
\* returns true
checkSessions(session, handle) ==
  IF ~Truthy(session) THEN "session-not-available"
  ELSE IF ~Truthy(handle) THEN "handle-not-available"
  ELSE Null

\* replyEvent: the replies sent after emitting evtname with the data
replyEvent(sent, evtname, data) == Append(sent, [event |-> evtname, data |-> data])

\* replyError: the replies sent after emitting 'audiobridge-error'
replyError(sent, message) ==
  Append(sent, [event |-> "audiobridge-error", data |-> message])

\* handle.detach() called on the value h of a handle variable
Detach(hs, h) == IF h \in AudioHandles THEN [hs EXCEPT ![h] = "detached"] ELSE hs

\* the socket's join event arrives: checkSessions, then the previous handle
\* is detached and the handler suspends, or janodeSession.attach is called
JoinEvent(j) ==
  LET failure == checkSessions(janodeSession, "true")
  IN  /\ joins[j].pc = "idle"
      /\ IF failure # Null
           THEN /\ joins' = [joins EXCEPT ![j] =
                               [NoHandler EXCEPT !.op = "join",
                                                 !.sent = replyError(<< >>, failure)]]
                /\ UNCHANGED handleSt
           ELSE IF Truthy(audioHandle)
             THEN /\ joins' = [joins EXCEPT ![j] =
                                 [NoHandler EXCEPT !.op = "join", !.pc = "detach"]]
                  /\ handleSt' = Detach(handleSt, audioHandle)
             ELSE /\ joins' = [joins EXCEPT ![j] =
                                 [NoHandler EXCEPT !.op = "join", !.pc = "attach"]]
                  /\ UNCHANGED handleSt
      /\ UNCHANGED <<audioHandle, reqs>>
      /\ UNCHANGED <<pluginVars, backEndVars>>

\* the awaited detach of the previous handle settles (its failure is
\* swallowed): janodeSession.attach is called
JoinDetachSettles(j) ==
  /\ joins[j].pc = "detach"
  /\ joins' = [joins EXCEPT ![j].pc = "attach"]
  /\ UNCHANGED <<audioHandle, handleSt, reqs>>
  /\ UNCHANGED <<pluginVars, backEndVars>>

\* janodeSession.attach settles: on success the new handle h is stored in
\* audioHandle and its join is called; on failure the catch block detaches
\* audioHandle and replies with the error
JoinAttachSettles(j, ok, h) ==
  /\ joins[j].pc = "attach"
  /\ IF ok
       THEN /\ handleSt[h] = "none"
            /\ handleSt' = [handleSt EXCEPT ![h] = "attached"]
            /\ audioHandle' = h
            /\ joins' = [joins EXCEPT ![j].pc = "join", ![j].h = h,
                                      ![j].outcome = "pending"]
       ELSE /\ handleSt' = Detach(handleSt, audioHandle)
            /\ joins' = [joins EXCEPT ![j].pc = "idle",
                                      ![j].sent = replyError(@, "attach failed")]
            /\ UNCHANGED audioHandle
  /\ UNCHANGED reqs
  /\ UNCHANGED <<pluginVars, backEndVars>>

\* audioHandle.join settles: the 'joined' reply with the response, or the
\* catch block detaches audioHandle and replies with the error
JoinSettles(j, ok) ==
  /\ joins[j].pc = "join"
  /\ IF ok
       THEN /\ joins' = [joins EXCEPT ![j].pc = "idle", ![j].outcome = "resolved",
                                      ![j].sent = replyEvent(@, "joined", "response")]
            /\ UNCHANGED handleSt
       ELSE /\ joins' = [joins EXCEPT ![j].pc = "idle", ![j].outcome = "rejected",
                                      ![j].sent = replyError(@, "join failed")]
            /\ handleSt' = Detach(handleSt, audioHandle)
  /\ UNCHANGED <<audioHandle, reqs>>
  /\ UNCHANGED <<pluginVars, backEndVars>>

\* the handle a socket event other than join works on
HandleFor(ev) ==
  IF SocketOps[ev].handle = "audio" THEN audioHandle ELSE janodeManagerHandle

\* a socket event other than join arrives: checkSessions, then the operation
\* of the handle is called; the handler awaits it, or (allow) replies with
\* what the call returned, which is the promise
SocketEvent(r, ev) ==
  LET failure == checkSessions(janodeSession, HandleFor(ev))
      called == [NoHandler EXCEPT !.op = ev, !.h = HandleFor(ev),
                                  !.outcome = "pending"]
  IN  /\ reqs[r].pc = "idle"
      /\ reqs' = [reqs EXCEPT ![r] =
                    IF failure # Null
                      THEN [NoHandler EXCEPT !.op = ev,
                                             !.sent = replyError(<< >>, failure)]
                    ELSE IF SocketOps[ev].awaited
                      THEN [called EXCEPT !.pc = "await"]
                    ELSE [called EXCEPT
                            !.pc = "returned",
                            !.sent = replyEvent(<< >>, SocketOps[ev].reply, "promise")]]
      /\ UNCHANGED <<audioHandle, handleSt, joins>>
      /\ UNCHANGED <<pluginVars, backEndVars>>

\* the operation of a socket event settles: an awaiting handler replies with
\* the response (and leave detaches audioHandle) or with the error; a handler
\* that has returned sends nothing
OperationSettles(r, ok) ==
  LET q == reqs[r]
  IN  /\ q.pc \in {"await", "returned"}
      /\ reqs' = [reqs EXCEPT ![r] =
                    [q EXCEPT !.pc = "idle",
                              !.outcome = IF ok THEN "resolved" ELSE "rejected",
                              !.sent = IF q.pc = "returned" THEN q.sent
                                       ELSE IF ok
                                         THEN replyEvent(q.sent, SocketOps[q.op].reply,
                                                         "response")
                                       ELSE replyError(q.sent, "failed")]]
      /\ handleSt' = IF q.pc = "await" /\ ok /\ q.op = "leave"
                       THEN Detach(handleSt, audioHandle)
                       ELSE handleSt
      /\ UNCHANGED <<audioHandle, joins>>
      /\ UNCHANGED <<pluginVars, backEndVars>>

\* the back end after connection.create() resolved, session.attach pending
BackEndCreated ==
  /\ task = "timeout"
  /\ timers = 0
  /\ attempts = [a \in Slots |-> IF a = 1 THEN [pc |-> "attach", conn |-> "open"]
                                           ELSE NoAttempt]
  /\ janodeSession = "session"
  /\ janodeManagerHandle = Undef
  /\ backStep = "created"
  /\ owed = FALSE

\* the back end after initBackEnd returned
BackEndAttached ==
  /\ task = Null
  /\ timers = 0
  /\ attempts = [a \in Slots |-> IF a = 1 THEN [pc |-> "idle", conn |-> "open"]
                                           ELSE NoAttempt]
  /\ janodeSession = "session"
  /\ janodeManagerHandle = "manager"
  /\ backStep = "attached"
  /\ owed = FALSE

\* a client's socket, with the back end not connected, connecting, or connected
InitSocket ==
  /\ InitPlugin({"h1"})
  /\ InitBackEnd \/ BackEndCreated \/ BackEndAttached
  /\ InitFrontEnd

\* the join events of a socket
NextJoin ==
  \/ \E j \in JoinSlots : JoinEvent(j)
  \/ \E j \in JoinSlots : JoinDetachSettles(j)
  \/ \E j \in JoinSlots, ok \in BOOLEAN, h \in AudioHandles : JoinAttachSettles(j, ok, h)
  \/ \E j \in JoinSlots, ok \in BOOLEAN : JoinSettles(j, ok)

SpecJoin == InitSocket /\ [][NextJoin]_vars

\* all the events of a socket, one handler of the join event at a time
NextSocket ==
  \/ JoinEvent(1)
  \/ JoinDetachSettles(1)
  \/ \E ok \in BOOLEAN, h \in AudioHandles : JoinAttachSettles(1, ok, h)
  \/ \E ok \in BOOLEAN : JoinSettles(1, ok)
  \/ \E r \in RequestSlots, ev \in DOMAIN SocketOps : SocketEvent(r, ev)
  \/ \E r \in RequestSlots, ok \in BOOLEAN : OperationSettles(r, ok)

SpecSocket == InitSocket /\ [][NextSocket]_vars

(* ------------------------------------------------------------------ *)
(* Properties                                                          *)
(* ------------------------------------------------------------------ *)

\* handleMessage has run on lastMsg in the current turn
Dispatched == phase # "idle"

\* the message is an AudioBridge message with tag a
Tagged(a) == Dispatched /\ lastMsg.plugindata = "data" /\ lastMsg.audiobridge = a

\* null or undefined
Nullish(v) == v \in {Null, Undef}

\* the event handleMessage returned
RetEvent == lastRet[1]

\* the closed enumeration of normalized event kinds
NormalizedKinds ==
  { PLUGIN_EVENT.JOINED, PLUGIN_EVENT.PEER_JOINED, PLUGIN_EVENT.PARTICIPANTS_LIST,
    PLUGIN_EVENT.CONFIGURED, PLUGIN_EVENT.PEER_CONFIGURED, PLUGIN_EVENT.LEAVING,
    PLUGIN_EVENT.PEER_LEAVING, PLUGIN_EVENT.KICKED, PLUGIN_EVENT.PEER_KICKED,
    PLUGIN_EVENT.AUDIO_HANGINGUP, PLUGIN_EVENT.EXISTS, PLUGIN_EVENT.ROOMS_LIST,
    PLUGIN_EVENT.CREATED, PLUGIN_EVENT.DESTROYED, PLUGIN_EVENT.RTP_FWD,
    PLUGIN_EVENT.FWD_LIST, PLUGIN_EVENT.SUCCESS, PLUGIN_EVENT.ERROR }

\* an 'event' message with a truthy error text, whose transaction the handle owned
OwnedErrorEvent == Tagged("event") /\ Truthy(lastMsg.error) /\ prev.owned

\* C1: every transaction identifier is completed (resolved or rejected) at
\* most once, and an error message for an owned transaction completes it
\* exactly once, as a rejection.
C1_CompletedAtMostOnce ==
  /\ \A t \in TxIds : reg[t].n <= 1
  /\ (phase = "dispatched" /\ OwnedErrorEvent) =>
       /\ reg[lastMsg.transaction].n = 1
       /\ reg[lastMsg.transaction].st = "rejected"

\* C1 witness: an error message for an owned transaction has been dispatched
\* and the transaction is rejected.
C1_Witness ==
  /\ phase = "dispatched" /\ OwnedErrorEvent
  /\ reg[lastMsg.transaction].st = "rejected"

\* C2: a handled message yields exactly one normalized event, of one kind of
\* the closed enumeration (what is emitted, if anything, is that one event); a
\* message outside the conference domain yields no event.
C2_OneEventPerMessage ==
  Dispatched =>
    /\ Len(lastRet) <= 1 /\ Len(emitted) <= Len(lastRet)
    /\ lastRet # << >> =>
         /\ RetEvent.event \in NormalizedKinds
         /\ \A i \in 1 .. Len(emitted) : emitted[i] = RetEvent
    /\ ~(lastMsg.plugindata = "data" /\ lastMsg.audiobridge # Undef) =>
         lastRet = << >> /\ emitted = << >>

\* C2 witness: a 'success' message carrying an allowed token list has been
\* handled and its event emitted.
C2_Witness ==
  /\ Tagged("success") /\ lastMsg.allowed # Undef /\ lastMsg.exists = Undef
  /\ lastMsg.list = Undef /\ lastMsg.stream_id = Undef
  /\ lastRet # << >> /\ emitted # << >>

\* C3: in every reachable state a handle's feed and room are both null or
\* both non-null.
C3_FeedRoomBothOrNeither ==
  \A h \in Handles : Nullish(feed[h]) <=> Nullish(room[h])

\* an own 'joined' message: the self-identifier field is present
OwnJoinMsg == Tagged("joined") /\ lastMsg.id # Undef

\* C4: after an own 'joined' message, whatever the prior state, the handle's
\* feed is the message's id and its room the message's room, and the joined
\* event's roster is as long as the message's participants array.
C4_OwnJoinBinds ==
  OwnJoinMsg =>
    /\ feed[lastH] = lastMsg.id
    /\ room[lastH] = lastMsg.room
    /\ lastMsg.participants.def =>
         /\ lastRet # << >>
         /\ RetEvent.event = PLUGIN_EVENT.JOINED
         /\ Len(RetEvent.data["participants"]) = Len(lastMsg.participants.arr)
    /\ lastRet # << >> => lastMsg.participants.def

\* C4 witness: an own join of two participants on a handle that was bound to
\* another feed and room.
C4_Witness ==
  /\ OwnJoinMsg /\ lastRet # << >>
  /\ prev.feed = "7" /\ prev.room = "R2"
  /\ feed[lastH] = "42" /\ room[lastH] = "R1"
  /\ Len(RetEvent.data["participants"]) = 2

\* C5: after a 'left' message the handle's feed and room are both null,
\* whatever they were and whoever left.
C5_LeftClears ==
  Tagged("left") => feed[lastH] = Null /\ room[lastH] = Null

\* C5 witness: a bound handle has processed the 'left' of another feed.
C5_Witness ==
  /\ Tagged("left") /\ prev.feed = "42" /\ prev.room = "R1" /\ lastMsg.id = "9"
  /\ feed[lastH] = Null

\* the message lacks the conference-domain envelope: no plugindata, no
\* plugindata.data, or no audiobridge tag
LacksEnvelope ==
  lastMsg.plugindata \in {"absent", "nodata"} \/ lastMsg.audiobridge = Undef

\* C6: for a message without the domain envelope, dispatch returns null and
\* the handle's feed and room are unchanged.
C6_ForeignNotHandled ==
  (Dispatched /\ LacksEnvelope) =>
    /\ lastRet = << >> /\ ~threw
    /\ feed[lastH] = prev.feed /\ room[lastH] = prev.room

\* C6 witness: a bound handle has been given a message without the tag that
\* names its own feed as kicked.
C6_Witness ==
  /\ Dispatched /\ LacksEnvelope /\ lastMsg.plugindata = "data"
  /\ lastMsg.kicked = "42" /\ prev.feed = "42" /\ feed[lastH] = "42"

\* C7: a classified message takes exactly one delivery path.  If the handle
\* owns the transaction at the start of the dispatch, that transaction and no
\* other is completed and nothing is emitted; otherwise the event is emitted
\* and the registry is unchanged.  The event is returned in both cases.
C7_OneDeliveryPath ==
  [][ (phase = "idle" /\ phase' = "dispatched" /\ lastRet' # << >>) =>
        LET t == lastMsg'.transaction
        IN  IF ownsTransaction(reg, t, lastH')
              THEN /\ reg'[t].st \in {"resolved", "rejected"}
                   /\ reg'[t].n = reg[t].n + 1
                   /\ \A u \in TxIds \ {t} : reg'[u] = reg[u]
                   /\ emitted' = << >>
              ELSE /\ reg' = reg
                   /\ emitted' = <<lastRet'[1]>> ]_vars

\* C7 witness: an owned transaction has been resolved by a classified message
\* and nothing was emitted.
C7_Witness ==
  /\ phase = "dispatched" /\ prev.owned /\ lastRet # << >> /\ emitted = << >>
  /\ reg[lastMsg.transaction].st = "resolved"

\* an 'event' message carrying an error text and an error code
ErrorWithCode ==
  Tagged("event") /\ Truthy(lastMsg.error) /\ lastMsg.error_code # Undef

\* the error text and the error code are both part of the error's message
EmbedsBoth(err) ==
  /\ \E i \in 1 .. Len(err["message"]) : err["message"][i] = lastMsg.error
  /\ \E i \in 1 .. Len(err["message"]) : err["message"][i] = lastMsg.error_code

\* C8: an 'event' message with an error text and code is classified as
\* error; an owned transaction is rejected with an error embedding both and
\* nothing is emitted, otherwise an error event carrying that error is emitted.
C8_ErrorEvent ==
  (phase = "dispatched" /\ ErrorWithCode) =>
    /\ lastRet # << >>
    /\ RetEvent.event = PLUGIN_EVENT.ERROR
    /\ EmbedsBoth(RetEvent.data)
    /\ IF prev.owned
         THEN /\ reg[lastMsg.transaction].st = "rejected"
              /\ EmbedsBoth(reg[lastMsg.transaction].resp.data)
              /\ emitted = << >>
         ELSE emitted = <<[event |-> PLUGIN_EVENT.ERROR, data |-> RetEvent.data]>>

\* C8 witness: the error of an owned transaction has rejected it.
C8_Witness ==
  /\ phase = "dispatched" /\ ErrorWithCode /\ prev.owned
  /\ reg[lastMsg.transaction].st = "rejected"
  /\ reg[lastMsg.transaction].resp.data["message"] = <<"404", " ", "not found">>

\* the message was classified as an error, and rejected the transaction the
\* handle owned, if any
ClassifiedAsError ==
  /\ lastRet # << >>
  /\ RetEvent.event = PLUGIN_EVENT.ERROR
  /\ prev.owned => reg[lastMsg.transaction].st = "rejected"

\* C9, as claimed: every 'event' message that carries an error code is
\* classified as error and rejects the owned transaction.
C9_ErrorCodeSelects ==
  (phase = "dispatched" /\ Tagged("event") /\ lastMsg.error_code # Undef) =>
    ClassifiedAsError

\* C9, amended: an 'event' message is classified as error, rejecting the
\* owned transaction, exactly when its error text is truthy, whatever its
\* error code and other fields.
C9_ErrorTextSelects ==
  (phase = "dispatched" /\ Tagged("event")) =>
    /\ Truthy(lastMsg.error) => ClassifiedAsError
    /\ ~Truthy(lastMsg.error) =>
         (lastRet = << >> \/ RetEvent.event # PLUGIN_EVENT.ERROR)

\* C9 witness: an error text without an error code, on an owned transaction
\* and beside a result field, has been classified as error.
C9_Witness ==
  /\ phase = "dispatched" /\ Tagged("event") /\ lastMsg.error = "not found"
  /\ lastMsg.error_code = Undef /\ lastMsg.result # Undef /\ prev.owned
  /\ ClassifiedAsError

\* the recognized fields of configure() and the type each must have
ConfigureTypes ==
  [ display |-> "string", muted |-> "boolean", quality |-> "number",
    volume |-> "number", record |-> "boolean", filename |-> "string",
    prebuffer |-> "number", group |-> "string" ]

\* every parameter is a recognized field of the expected type
WellTypedConfigure(p) ==
  \A k \in DOMAIN p : k \in DOMAIN ConfigureTypes /\ Typeof(p[k]) = ConfigureTypes[k]

\* configure() has resumed on a payload-less 'ok' acknowledgment
ConfigureAcked ==
  /\ phase = "resumed" /\ result.op = REQUEST_CONFIGURE
  /\ Tagged("event") /\ lastMsg.result = "ok" /\ ~Truthy(lastMsg.error)
  /\ lastMsg.room = Undef /\ lastMsg.jsep = Undef

\* C10: configure() with well-typed recognized fields on a handle bound to
\* room R and feed F, acknowledged by a payload-less 'ok', resolves with
\* exactly {room: R, feed: F} plus the fields that were sent.
C10_ConfigureEcho ==
  (/\ ConfigureAcked /\ WellTypedConfigure(result.params)
   /\ ~Nullish(feed[lastH]) /\ ~Nullish(room[lastH])) =>
    /\ result.ok
    /\ result.value =
         ("room" :> room[lastH]) @@ ("feed" :> feed[lastH]) @@ result.params

\* C10 witness: {muted: true, volume: 50} on R1/42.
C10_Witness ==
  /\ ConfigureAcked /\ result.ok
  /\ result.value = [room |-> "R1", feed |-> "42", muted |-> "true", volume |-> "50"]

\* kick() has resumed on a generic-success answer
KickAnswered ==
  /\ phase = "resumed" /\ result.op = REQUEST_KICK
  /\ Tagged("success") /\ lastRet # << >>
  /\ RetEvent.event = PLUGIN_EVENT.SUCCESS

\* C11: kick({room, feed}) answered by a generic-success response resolves
\* with the service-provided event data overwritten or extended by room and
\* feed equal to the requested room and target feed (not the handle's own),
\* and the kicking handle's feed and room are what they were.
C11_KickEcho ==
  KickAnswered =>
    /\ result.ok
    /\ result.value =
         ("room" :> result.params["room"]) @@ ("feed" :> result.params["feed"])
           @@ RetEvent.data
    /\ feed[lastH] = prev.feed
    /\ room[lastH] = prev.room

\* C11 witness: a handle bound to R2/42 kicks {room: R1, feed: 7}; the answer
\* names room R9 and carries a token list.
C11_Witness ==
  /\ KickAnswered /\ result.ok
  /\ RetEvent.data = [room |-> "R9", list |-> "[tokens]"]
  /\ result.value = [room |-> "R1", feed |-> "7", list |-> "[tokens]"]
  /\ feed[lastH] = "42" /\ room[lastH] = "R2"

\* a 'joined' message without the id field whose participants array has
\* exactly one element
PeerJoinMsg ==
  /\ Tagged("joined") /\ lastMsg.id = Undef
  /\ lastMsg.participants.def /\ Len(lastMsg.participants.arr) = 1

\* C12: a 'joined' message without the self-identifier whose participants
\* array has exactly one element is classified as peer-joined; the event data
\* carries that participant's feed, and display / muted / setup / rtp only
\* when the participant has them; the handle's feed and room are untouched.
C12_PeerJoined ==
  PeerJoinMsg =>
    LET peer == lastMsg.participants.arr[1]
    IN  /\ lastRet # << >>
        /\ RetEvent.event = PLUGIN_EVENT.PEER_JOINED
        /\ RetEvent.data["feed"] = peer.id
        /\ \A k \in {"display", "muted", "setup", "rtp"} :
             /\ k \in DOMAIN RetEvent.data => peer[k] # Undef /\ RetEvent.data[k] = peer[k]
             /\ (IF k = "display" THEN Typeof(peer[k]) = "string" ELSE peer[k] # Undef)
                  => k \in DOMAIN RetEvent.data
        /\ DOMAIN RetEvent.data \subseteq
             {"feed", "display", "muted", "setup", "rtp", "room", "jsep"}
        /\ feed[lastH] = prev.feed
        /\ room[lastH] = prev.room

\* C12 witness: a handle bound to R1/42 is told that {id: 9, display: Bob}
\* joined.
C12_Witness ==
  /\ PeerJoinMsg
  /\ RetEvent.data = [feed |-> "9", display |-> "Bob"]
  /\ feed[lastH] = "42" /\ room[lastH] = "R1"

\* a 'forwarders' message with its array of forwarders
ForwardersMsg == Tagged("forwarders") /\ lastMsg.rtp_forwarders.def

\* the entry names a group (a non-empty string)
HadGroup(entry) == entry.group \notin {Undef, Null, ""}

\* C13: a 'forwarders' message is reshaped into a forwarders-list event whose
\* descriptors have the number and the order of the message's entries, each
\* mapping ip / port / stream_id / always_on to host / audio_port /
\* audio_stream / always, with a group on exactly the descriptors whose entry
\* had one.
C13_ForwardersReshaped ==
  ForwardersMsg =>
    /\ lastRet # << >>
    /\ RetEvent.event = PLUGIN_EVENT.FWD_LIST
    /\ LET src == lastMsg.rtp_forwarders.arr
           out == RetEvent.data["forwarders"]
       IN  /\ Len(out) = Len(src)
           /\ \A i \in 1 .. Len(src) :
                /\ out[i]["host"] = src[i].ip
                /\ out[i]["audio_port"] = src[i].port
                /\ out[i]["audio_stream"] = src[i].stream_id
                /\ out[i]["always"] = src[i].always_on
                /\ "group" \in DOMAIN out[i] <=> HadGroup(src[i])
                /\ HadGroup(src[i]) => out[i]["group"] = src[i].group

\* C13 witness: two entries, the first with a group and the second without.
C13_Witness ==
  /\ ForwardersMsg /\ lastRet # << >>
  /\ RetEvent.data["forwarders"] =
       << [host |-> "10.0.0.1", audio_port |-> "5000", audio_stream |-> "5",
           always |-> "true", group |-> "g1"],
          [host |-> "10.0.0.2", audio_port |-> "5000", audio_stream |-> "7",
           always |-> "false"] >>

\* the event kind each request builder expects
ExpectedKind ==
  (REQUEST_JOIN :> PLUGIN_EVENT.JOINED)
    @@ (REQUEST_CONFIGURE :> PLUGIN_EVENT.CONFIGURED)
    @@ (REQUEST_AUDIO_HANGUP :> PLUGIN_EVENT.AUDIO_HANGINGUP)
    @@ (REQUEST_LEAVE :> PLUGIN_EVENT.LEAVING)
    @@ (REQUEST_LIST_PARTICIPANTS :> PLUGIN_EVENT.PARTICIPANTS_LIST)
    @@ (REQUEST_KICK :> PLUGIN_EVENT.SUCCESS)
    @@ (REQUEST_ALLOW :> PLUGIN_EVENT.SUCCESS)
    @@ (REQUEST_EXISTS :> PLUGIN_EVENT.EXISTS)
    @@ (REQUEST_LIST_ROOMS :> PLUGIN_EVENT.ROOMS_LIST)
    @@ (REQUEST_CREATE :> PLUGIN_EVENT.CREATED)
    @@ (REQUEST_DESTROY :> PLUGIN_EVENT.DESTROYED)
    @@ (REQUEST_RTP_FWD_START :> PLUGIN_EVENT.RTP_FWD)
    @@ (REQUEST_RTP_FWD_STOP :> PLUGIN_EVENT.RTP_FWD)
    @@ (REQUEST_RTP_FWD_LIST :> PLUGIN_EVENT.FWD_LIST)

\* the 'unexpected response' error of an operation
UnexpectedFor(op) == ("message" :> <<"unexpected response to ", op, " request">>)

\* a builder runs on after its transaction was resolved (not rejected) with
\* the event handleMessage returned
ResumesOnResolved ==
  phase' = "resumed" /\ lastRet # << >> /\ RetEvent.event # PLUGIN_EVENT.ERROR

\* C14: each request builder expects exactly one event kind; when its
\* transaction resolves with that kind the operation returns, with any other
\* kind it fails with an 'unexpected response' error; and no step changes a
\* pending transaction other than the one the dispatched message carries.
C14_KindContract ==
  [][ /\ ResumesOnResolved =>
           /\ result'.ok <=> RetEvent.event = ExpectedKind[result'.op]
           /\ ~result'.ok => result'.value = UnexpectedFor(result'.op)
      /\ \A u \in TxIds :
           (reg[u].st = "pending" /\ reg'[u] # reg[u]) => u = lastMsg'.transaction
    ]_vars

\* C14 witness: join() fails on a generic-success answer while another
\* request of the handle is still pending.
C14_Witness ==
  /\ phase = "resumed" /\ result.op = REQUEST_JOIN /\ ~result.ok
  /\ lastRet # << >> /\ RetEvent.event = PLUGIN_EVENT.SUCCESS
  /\ result.value = UnexpectedFor("join")
  /\ \E u \in TxIds : u # result.tx /\ reg[u].st = "pending" /\ reg[u].owner = lastH

\* the optional parameters of each request builder: parameter, expected type,
\* name in the payload
OptionalFields ==
  (REQUEST_JOIN :>
     { <<"feed", "number", "id">>, <<"display", "string", "display">>,
       <<"muted", "boolean", "muted">>, <<"pin", "string", "pin">>,
       <<"token", "string", "token">>, <<"quality", "number", "quality">>,
       <<"volume", "number", "volume">>, <<"record", "boolean", "record">>,
       <<"filename", "string", "filename">>,
       <<"rtp_participant", "object|boolean", "rtp">>, <<"group", "string", "group">> })
    @@ (REQUEST_CONFIGURE :>
     { <<"display", "string", "display">>, <<"muted", "boolean", "muted">>,
       <<"quality", "number", "quality">>, <<"volume", "number", "volume">>,
       <<"record", "boolean", "record">>, <<"filename", "string", "filename">>,
       <<"prebuffer", "number", "prebuffer">>, <<"group", "string", "group">> })
    @@ (REQUEST_AUDIO_HANGUP :> {})
    @@ (REQUEST_LEAVE :> {})
    @@ (REQUEST_LIST_PARTICIPANTS :> { <<"secret", "string", "secret">> })
    @@ (REQUEST_KICK :> { <<"secret", "string", "secret">> })
    @@ (REQUEST_EXISTS :> {})
    @@ (REQUEST_LIST_ROOMS :> {})
    @@ (REQUEST_CREATE :>
     { <<"description", "string", "description">>, <<"permanent", "boolean", "permanent">>,
       <<"sampling_rate", "number", "sampling">>, <<"is_private", "boolean", "is_private">>,
       <<"secret", "string", "secret">>, <<"pin", "string", "pin">>,
       <<"record", "boolean", "record">>, <<"filename", "string", "record_file">>,
       <<"prebuffer", "number", "default_prebuffering">>,
       <<"allow_rtp", "boolean", "allow_rtp_participants">>,
       <<"groups", "array", "groups">> })
    @@ (REQUEST_DESTROY :>
     { <<"permanent", "boolean", "permanent">>, <<"secret", "string", "secret">> })
    @@ (REQUEST_ALLOW :>
     { <<"list", "array", "allowed">>, <<"secret", "string", "secret">> })
    @@ (REQUEST_RTP_FWD_START :>
     { <<"always", "boolean", "always_on">>, <<"group", "string", "group">>,
       <<"secret", "string", "secret">> })
    @@ (REQUEST_RTP_FWD_STOP :> { <<"secret", "string", "secret">> })
    @@ (REQUEST_RTP_FWD_LIST :> { <<"secret", "string", "secret">> })

\* the value is a supplied value of the type
HasType(v, ty) ==
  CASE ty = "array" -> v \in JsArrays
    [] ty = "object|boolean" ->
         (Typeof(v) = "object" /\ v # Null) \/ Typeof(v) = "boolean"
    [] OTHER -> Typeof(v) = ty

\* the requests that were sent and are not answered yet
Sent == { t \in TxIds : reg[t].st = "pending" }

\* field f of the request is in the payload only if it was supplied with the
\* expected type
OnlyIfTyped(tx, f) ==
  f[3] \in DOMAIN tx.body => HasType(Get(tx.params, f[1]), f[2])

\* C15, as claimed: for every request builder and every optional field of it,
\* join's feed and allow's token list included, the field is in the outgoing
\* payload only if the caller supplied it with the expected type.
C15_OptionalOnlyIfTyped ==
  \A t \in Sent : \A f \in OptionalFields[reg[t].op] : OnlyIfTyped(reg[t], f)

\* join's feed and allow's token list
Unchecked == { <<"feed", "number", "id">>, <<"list", "array", "allowed">> }

\* a value with a positive length: an array with elements, or a string with
\* characters
NonEmptyList(v) ==
  v \in {"[tokens]", "[rooms]", "[groups]"} \/ (Typeof(v) = "string" /\ v # "")

\* C15, amended: every optional field other than join's feed and allow's
\* token list is in the payload only if supplied with the expected type, and
\* then with the caller's value (rtp_participant: true is sent as {}); join
\* always sends an id, the caller's feed whatever its type or 0 when the feed
\* is absent; allow sends the token list, whatever its type, exactly when it
\* has a positive length.
C15_OptionalAsCoded ==
  \A t \in Sent :
    LET tx == reg[t]
    IN  /\ \A f \in OptionalFields[tx.op] \ Unchecked :
             /\ OnlyIfTyped(tx, f)
             /\ f[3] \in DOMAIN tx.body =>
                  tx.body[f[3]] =
                    IF f[1] = "rtp_participant" /\ Get(tx.params, f[1]) = "true"
                      THEN "{}" ELSE Get(tx.params, f[1])
        /\ tx.op = REQUEST_JOIN =>
             /\ "id" \in DOMAIN tx.body
             /\ tx.body["id"] =
                  IF Get(tx.params, "feed") = Undef THEN "0" ELSE Get(tx.params, "feed")
        /\ tx.op = REQUEST_ALLOW =>
             /\ "allowed" \in DOMAIN tx.body <=> NonEmptyList(Get(tx.params, "list"))
             /\ "allowed" \in DOMAIN tx.body => tx.body["allowed"] = Get(tx.params, "list")

\* C15 witness: join() called without a feed and with a number as display
\* sends id 0 and no display.
C15_Witness ==
  \E t \in Sent :
    /\ reg[t].op = REQUEST_JOIN
    /\ Get(reg[t].params, "feed") = Undef /\ Get(reg[t].params, "display") = "5"
    /\ reg[t].body = [request |-> "join", room |-> "R1", id |-> "0"]

\* the required parameters of each request builder: parameter, name in the
\* payload
RequiredFields ==
  (REQUEST_JOIN :> { <<"room", "room">> })
    @@ (REQUEST_CONFIGURE :> {})
    @@ (REQUEST_AUDIO_HANGUP :> {})
    @@ (REQUEST_LEAVE :> {})
    @@ (REQUEST_LIST_PARTICIPANTS :> { <<"room", "room">> })
    @@ (REQUEST_KICK :> { <<"room", "room">>, <<"feed", "id">> })
    @@ (REQUEST_EXISTS :> { <<"room", "room">> })
    @@ (REQUEST_LIST_ROOMS :> {})
    @@ (REQUEST_CREATE :> { <<"room", "room">> })
    @@ (REQUEST_DESTROY :> { <<"room", "room">> })
    @@ (REQUEST_ALLOW :> { <<"room", "room">>, <<"action", "action">> })
    @@ (REQUEST_RTP_FWD_START :>
          { <<"room", "room">>, <<"host", "host">>, <<"audio_port", "port">> })
    @@ (REQUEST_RTP_FWD_STOP :> { <<"room", "room">>, <<"stream", "stream_id">> })
    @@ (REQUEST_RTP_FWD_LIST :> { <<"room", "room">> })

\* the payload carries the caller's value of the field, whatever it is
CopiedUnchecked(tx, f) == Get(tx.body, f[2]) = Get(tx.params, f[1])

\* C16, as claimed: for every request builder, its required fields (room,
\* kick's feed, allow's action, startForward's host and port, stopForward's
\* stream) are copied into the outgoing payload unchecked, whatever their
\* type or value.
C16_RequiredUnchecked ==
  \A t \in Sent : \A f \in RequiredFields[reg[t].op] : CopiedUnchecked(reg[t], f)

\* startForward's host and port, with the types the builder tests for
TypeChecked == { <<"host", "host", "string">>, <<"audio_port", "port", "number">> }

\* C16, amended: the required fields other than startForward's host and
\* port are copied into the payload unchecked; startForward's host is copied
\* only when it is a string and its port only when it is a number, and is
\* left out of the payload otherwise.
C16_RequiredAsCoded ==
  \A t \in Sent :
    LET tx == reg[t]
    IN  /\ \A f \in RequiredFields[tx.op] :
             <<f[1], f[2]>> \notin { <<c[1], c[2]>> : c \in TypeChecked }
               => CopiedUnchecked(tx, f)
        /\ tx.op = REQUEST_RTP_FWD_START =>
             \A c \in TypeChecked :
               IF Typeof(Get(tx.params, c[1])) = c[3]
                 THEN c[2] \in DOMAIN tx.body /\ tx.body[c[2]] = tx.params[c[1]]
                 ELSE c[2] \notin DOMAIN tx.body

\* C16 witness: stopForward() called with an object as stream sends it.
C16_Witness ==
  \E t \in Sent :
    /\ reg[t].op = REQUEST_RTP_FWD_STOP
    /\ reg[t].params["stream"] = "{rtp}"
    /\ reg[t].body = [request |-> "stop_rtp_forward", room |-> "R1", stream_id |-> "{rtp}"]

\* the step hands handle h a message with tag a
Handed(h, a) ==
  /\ phase = "idle" /\ phase' = "dispatched" /\ lastH' = h
  /\ lastMsg'.plugindata = "data" /\ lastMsg'.audiobridge = a

\* the step binds v: from null (or undefined) to a value
Binds(v) == Nullish(v) /\ ~Nullish(v')

\* the step clears v: from a value to null (or undefined)
Clears(v) == ~Nullish(v) /\ Nullish(v')

\* C17: over any sequence of inbound messages, a handle's feed and room
\* change from null to non-null only in a step that handles an own 'joined'
\* message, and from non-null to null only in a step that handles a 'left'
\* message or an 'event' message whose kicked feed is the handle's current
\* feed.
C17_BoundByJoinClearedByLeave ==
  [][ \A h \in Handles :
        /\ (Binds(feed[h]) \/ Binds(room[h])) =>
             Handed(h, "joined") /\ lastMsg'.id # Undef
        /\ (Clears(feed[h]) \/ Clears(room[h])) =>
             \/ Handed(h, "left")
             \/ Handed(h, "event") /\ lastMsg'.kicked = feed[h]
    ]_vars

\* the classifications that bind or clear the handle: own-join, left and
\* self-kicked
StateChangingKinds ==
  {PLUGIN_EVENT.JOINED, PLUGIN_EVENT.LEAVING, PLUGIN_EVENT.KICKED}

\* C18: every classification other than own-join, left and self-kicked
\* (peer-joined, peer-configured, peer-leaving, peer-kicked,
\* participants-list, configured, hangingup, created, destroyed, exists,
\* rooms-list, rtp-forward-result, forwarders-list, generic-success and error)
\* leaves the handle's feed and room unchanged.
C18_OtherKindsKeepState ==
  (Dispatched /\ lastRet # << >> /\ RetEvent.event \notin StateChangingKinds) =>
    /\ RetEvent.event \in NormalizedKinds
    /\ feed[lastH] = prev.feed
    /\ room[lastH] = prev.room

\* C18 witness: a handle bound to R1/42 is told that its audio is hanging up.
C18_Witness ==
  /\ Dispatched /\ lastRet # << >>
  /\ RetEvent.event = PLUGIN_EVENT.AUDIO_HANGINGUP
  /\ prev.feed = "42" /\ prev.room = "R1"
  /\ feed[lastH] = "42" /\ room[lastH] = "R1"

\* an 'event' message whose kicked field is the one that classifies it: no
\* error text, no result, no single-element participants array, no leaving
KickedMsg ==
  /\ Tagged("event") /\ lastMsg.kicked # Undef
  /\ ~Truthy(lastMsg.error) /\ lastMsg.result = Undef /\ lastMsg.leaving = Undef
  /\ ~(lastMsg.participants.def /\ Len(lastMsg.participants.arr) = 1)

\* C19: an 'event' message carrying a kicked field is classified as
\* self-kicked, clearing the handle's feed and room, exactly when the kicked
\* feed equals the handle's current feed; otherwise it is classified as
\* peer-kicked and feed and room are unchanged.  In both cases the event data
\* carries the kicked feed.
C19_KickedSelfOrPeer ==
  KickedMsg =>
    /\ lastRet # << >>
    /\ RetEvent.data["feed"] = lastMsg.kicked
    /\ IF lastMsg.kicked = prev.feed
         THEN /\ RetEvent.event = PLUGIN_EVENT.KICKED
              /\ feed[lastH] = Null /\ room[lastH] = Null
         ELSE /\ RetEvent.event = PLUGIN_EVENT.PEER_KICKED
              /\ feed[lastH] = prev.feed /\ room[lastH] = prev.room

\* C19 witness: the handle bound to R1/42 is told that feed 42 was kicked.
C19_Witness ==
  /\ KickedMsg /\ lastMsg.kicked = "42"
  /\ prev.feed = "42" /\ prev.room = "R1"
  /\ RetEvent.event = PLUGIN_EVENT.KICKED
  /\ feed[lastH] = Null /\ room[lastH] = Null

\* the kind of a 'success' message: the first applicable test, in the order
\* exists, room list, stream identifier, generic
SuccessKind(m) ==
  IF m.exists # Undef THEN PLUGIN_EVENT.EXISTS
  ELSE IF m.list # Undef THEN PLUGIN_EVENT.ROOMS_LIST
  ELSE IF m.stream_id # Undef THEN PLUGIN_EVENT.RTP_FWD
  ELSE PLUGIN_EVENT.SUCCESS

\* the keys of the event data besides room and jsep
Payload(d) == DOMAIN d \ {"room", "jsep"}

\* C20: a 'success' message is always classified, into exactly one kind
\* chosen by the first applicable test in the order: exists field gives
\* exists; else room-list field gives rooms-list; else stream identifier gives
\* rtp-forward-result (host, port, stream id, group only if present); else
\* generic-success, carrying the allowed token list when that field is
\* present.  The data of the later-listed kinds is not part of the event.
C20_SuccessFirstMatch ==
  Tagged("success") =>
    /\ lastRet # << >>
    /\ RetEvent.event = SuccessKind(lastMsg)
    /\ LET d == RetEvent.data
       IN  CASE RetEvent.event = PLUGIN_EVENT.EXISTS ->
                  Payload(d) = {"exists"} /\ d["exists"] = lastMsg.exists
             [] RetEvent.event = PLUGIN_EVENT.ROOMS_LIST ->
                  Payload(d) = {"list"} /\ d["list"] = lastMsg.list
             [] RetEvent.event = PLUGIN_EVENT.RTP_FWD ->
                  /\ Payload(d) = {"forwarder"}
                  /\ d["forwarder"]["host"] = lastMsg.host
                  /\ d["forwarder"]["audio_port"] = lastMsg.port
                  /\ d["forwarder"]["audio_stream"] = lastMsg.stream_id
                  /\ "group" \in DOMAIN d["forwarder"] <=> lastMsg.group # Undef
                  /\ lastMsg.group # Undef => d["forwarder"]["group"] = lastMsg.group
             [] RetEvent.event = PLUGIN_EVENT.SUCCESS ->
                  /\ Payload(d) = IF lastMsg.allowed # Undef THEN {"list"} ELSE {}
                  /\ lastMsg.allowed # Undef => d["list"] = lastMsg.allowed
             [] OTHER -> FALSE

\* C20 witness: a 'success' message with an exists field, a room list, a
\* stream identifier and a token list yields the exists kind alone.
C20_Witness ==
  /\ Tagged("success")
  /\ lastMsg.exists = "true" /\ lastMsg.list = "[rooms]"
  /\ lastMsg.stream_id = "5" /\ lastMsg.allowed = "[tokens]"
  /\ RetEvent = [event |-> PLUGIN_EVENT.EXISTS, data |-> [room |-> "R1", exists |-> "true"]]

\* the transaction is settled: resolved or rejected
Settled(tx) == tx.st \in {"resolved", "rejected"}

\* the step dispatches a message that handleMessage classifies
ClassifiedStep == phase = "idle" /\ phase' = "dispatched" /\ lastRet' # << >>

\* C21: with several requests in flight on one handle, each classified
\* response completes exactly the pending request whose transaction identifier
\* it carries, whatever the order of the responses; no response completes a
\* request with a different identifier.
C21_CorrelatedById ==
  [][ /\ \A t \in TxIds :
           (reg[t].st = "pending" /\ Settled(reg'[t])) =>
             /\ ClassifiedStep
             /\ lastMsg'.transaction = t /\ lastH' = reg[t].owner
             /\ reg'[t].st = "resolved" => reg'[t].resp = lastRet'[1]
      /\ ClassifiedStep =>
           \A t \in TxIds :
             IF t = lastMsg'.transaction /\ reg[t].st = "pending" /\ reg[t].owner = lastH'
               THEN Settled(reg'[t])
               ELSE reg'[t] = reg[t]
    ]_vars

\* C21 witness: the second request is answered while the first, issued
\* earlier on the same handle, is still pending.
C21_Witness ==
  /\ phase = "dispatched" /\ lastMsg.transaction = 2
  /\ reg[2].st = "resolved" /\ reg[2].resp = RetEvent
  /\ reg[1].st = "pending" /\ reg[1].owner = reg[2].owner

\* the tags the switch has a case for
KnownTags ==
  {"success", "joined", "participants", "created", "destroyed", "hangingup",
   "left", "forwarders", "event"}

\* the participants array has exactly one element
SinglePeer(m) == m.participants.def /\ Len(m.participants.arr) = 1

\* a message with the domain envelope that matches no sub-case: an unknown
\* tag, a 'joined' without id whose participants array is absent or not of
\* length one, an 'event' with none of the recognized fields
Unclassifiable ==
  /\ Dispatched /\ lastMsg.plugindata = "data"
  /\ lastMsg.audiobridge \notin {Undef, Null, ""}
  /\ \/ lastMsg.audiobridge \notin KnownTags
     \/ lastMsg.audiobridge = "joined" /\ lastMsg.id = Undef /\ ~SinglePeer(lastMsg)
     \/ /\ lastMsg.audiobridge = "event"
        /\ lastMsg.error \in {Undef, ""} /\ lastMsg.result = Undef
        /\ ~SinglePeer(lastMsg) /\ lastMsg.leaving = Undef /\ lastMsg.kicked = Undef

\* C22: a message that carries the domain envelope but matches no sub-case
\* returns the not-handled value, broadcasts no event and completes no
\* transaction: a transaction identifier it carries and that the handle owns
\* stays pending.
C22_UnclassifiableIgnored ==
  Unclassifiable =>
    /\ lastRet = << >> /\ emitted = << >> /\ ~threw
    /\ Completed = {}
    /\ prev.owned =>
         /\ reg[lastMsg.transaction].st = "pending"
         /\ reg[lastMsg.transaction].n = 0
    /\ feed[lastH] = prev.feed /\ room[lastH] = prev.room

\* C22 witness: a 'joined' message without id and with two participants
\* carries the identifier of a pending request of the handle.
C22_Witness ==
  /\ Unclassifiable /\ prev.owned
  /\ lastMsg.audiobridge = "joined" /\ Len(lastMsg.participants.arr) = 2
  /\ reg[lastMsg.transaction].st = "pending"

\* the message of the current dispatch carries a request of the handle that
\* was pending, and handleMessage classified it
AnswerClassified == Dispatched /\ prev.owned /\ lastRet # << >>

\* C23: a pending request whose correlated message is classified is
\* completed within the dispatch of that message, resolved or (for the error
\* kind) rejected, once; its caller then gets one outcome, an event or an
\* error, and the request is no longer pending.
C23_AnsweredWithinDispatch ==
  AnswerClassified =>
    LET t == lastMsg.transaction
    IN  /\ reg[t].st # "pending" /\ reg[t].n = 1
        /\ phase = "dispatched" =>
             /\ Settled(reg[t])
             /\ reg[t].st = "rejected" <=> RetEvent.event = PLUGIN_EVENT.ERROR
        /\ phase = "resumed" =>
             /\ result.tx = t /\ reg[t].st = "closed"
             /\ RetEvent.event = PLUGIN_EVENT.ERROR =>
                  ~result.ok /\ result.value = RetEvent.data
             /\ result.ok => RetEvent.event = ExpectedKind[result.op]

\* C23 witness: join() has got its joined event, in the turn that dispatched
\* it.
C23_Witness ==
  /\ AnswerClassified /\ phase = "resumed"
  /\ result.op = REQUEST_JOIN /\ result.ok
  /\ RetEvent.event = PLUGIN_EVENT.JOINED /\ result.value = RetEvent.data
  /\ reg[result.tx].n = 1

\* the step dispatches a classified message whose transaction, if any, is
\* not a pending request of the handle: a push notification
PushStep == ClassifiedStep /\ ~ownsTransaction(reg, lastMsg'.transaction, lastH')

\* the step dispatches a classified message that carries a pending request
\* of the handle: its response
ResponseStep == ClassifiedStep /\ ownsTransaction(reg, lastMsg'.transaction, lastH')

\* C24: a push notification that carries no transaction identifier owned by
\* the handle, dispatched at any point while requests are pending, is
\* broadcast to subscribers and leaves every transaction as it is; the
\* response of a pending request, whenever it comes, completes it and is
\* not broadcast.
C24_PushesInterleave ==
  [][ /\ PushStep => emitted' = lastRet' /\ reg' = reg
      /\ ResponseStep =>
           /\ emitted' = << >>
           /\ Settled(reg'[lastMsg'.transaction])
    ]_vars

\* C24 witness: a peer-leaving notification is broadcast to a handle with
\* two requests pending.
C24_Witness ==
  /\ phase = "dispatched" /\ ~prev.owned
  /\ lastRet # << >> /\ emitted = lastRet
  /\ RetEvent.event = PLUGIN_EVENT.PEER_LEAVING
  /\ \A t \in {1, 2} : reg[t].st = "pending" /\ reg[t].owner = lastH

\* the message carries a feed identifier: an id other than 0 and the empty
\* string, which stand for no identifier
CarriesId(m) == m.id \notin {Undef, Null, "0", ""}

\* the feed a 'hangingup' or 'left' message is about: its id when it carries
\* one, otherwise the feed the handle had before the dispatch
SubjectFeed == IF CarriesId(lastMsg) THEN lastMsg.id ELSE prev.feed

\* C25: a 'hangingup' message yields a hangingup event whose feed is the
\* message's id when the message carries one and otherwise the handle's
\* current feed, and it leaves the handle's feed and room unchanged.
C25_HangingupFeed ==
  Tagged("hangingup") =>
    /\ lastRet # << >>
    /\ RetEvent.event = PLUGIN_EVENT.AUDIO_HANGINGUP
    /\ RetEvent.data["feed"] = SubjectFeed
    /\ feed[lastH] = prev.feed /\ room[lastH] = prev.room

\* C25 witness: a 'hangingup' without id on a handle bound to R1/42.
C25_Witness ==
  /\ Tagged("hangingup") /\ lastMsg.id = Undef
  /\ prev.feed = "42" /\ RetEvent.data["feed"] = "42"
  /\ feed[lastH] = "42" /\ room[lastH] = "R1"

\* C26: a 'left' message yields a leaving event whose feed is the message's
\* id when the message carries one and otherwise the feed the handle had
\* before the dispatch: the feed is read before the handle is cleared, so on
\* a bound handle the event never carries the cleared (null) value.
C26_LeftFeedReadFirst ==
  Tagged("left") =>
    /\ lastRet # << >>
    /\ RetEvent.event = PLUGIN_EVENT.LEAVING
    /\ RetEvent.data["feed"] = SubjectFeed
    /\ ~Nullish(prev.feed) => ~Nullish(RetEvent.data["feed"])
    /\ feed[lastH] = Null /\ room[lastH] = Null

\* C26 witness: a 'left' without id on a handle bound to R1/42 reports feed
\* 42 and leaves the handle cleared.
C26_Witness ==
  /\ Tagged("left") /\ lastMsg.id = Undef
  /\ prev.feed = "42" /\ prev.room = "R1"
  /\ RetEvent.data["feed"] = "42"
  /\ feed[lastH] = Null /\ room[lastH] = Null

\* C27: with two handles, dispatching any message to one handle never
\* changes the feed or room of the other: a handle's feed and room change
\* only in the steps that dispatch a message to that handle.
C27_HandlesIndependent ==
  [][ \A h \in Handles :
        (feed'[h] # feed[h] \/ room'[h] # room[h]) =>
          phase = "idle" /\ phase' = "dispatched" /\ lastH' = h
    ]_vars

\* C27 witness: both handles were bound to R1/42; a 'left' message to h2
\* clears h2 and h1 is still bound.
C27_Witness ==
  /\ attached = Handles
  /\ phase = "dispatched" /\ lastH = "h2" /\ Tagged("left")
  /\ prev.feed = "42" /\ feed["h2"] = Null /\ room["h2"] = Null
  /\ feed["h1"] = "42" /\ room["h1"] = "R1"

\* configure() has resumed on its acknowledgment
ConfigureResolved ==
  /\ phase = "resumed" /\ result.op = REQUEST_CONFIGURE
  /\ lastRet # << >> /\ RetEvent.event = PLUGIN_EVENT.CONFIGURED

\* C28: the feed and room that configure() puts in its result are the
\* handle's values when the acknowledgment is processed, not when the request
\* was issued: with every request issued on a bound handle, a 'left' or
\* self-kicked message dispatched before the acknowledgment makes configure()
\* resolve, successfully, with feed and room null.
C28_ConfigureReadsAtAck ==
  ConfigureResolved =>
    /\ result.ok
    /\ result.value["feed"] = feed[lastH]
    /\ result.value["room"] = room[lastH]

\* C28 witness: configure(), called on a bound handle, resolves with feed
\* and room null.
C28_Witness ==
  /\ ConfigureResolved /\ result.ok
  /\ result.value["feed"] = Null /\ result.value["room"] = Null

\* the sub-case that decides an 'event' message: the first, in the order
\* error, result, participants, leaving, kicked, whose field is present (an
\* error text that is empty counts as absent)
DecidingField(m) ==
  IF m.error \notin {Undef, Null, ""} THEN "error"
  ELSE IF m.result # Undef THEN "result"
  ELSE IF SinglePeer(m) THEN "participants"
  ELSE IF m.leaving # Undef THEN "leaving"
  ELSE IF m.kicked # Undef THEN "kicked"
  ELSE "none"

\* handleMessage returned an event of the kind
Yields(kind) == lastRet # << >> /\ RetEvent.event = kind

\* the handle's feed and room are what they were before the dispatch
StateKept == feed[lastH] = prev.feed /\ room[lastH] = prev.room

\* C29: the sub-cases of an 'event' message are tried in the order error,
\* result, single-element participants, leaving, kicked, and the first whose
\* field is present decides alone; a message with a result other than 'ok'
\* produces no event and no state change, even when it also carries a
\* participants, leaving or kicked field.
C29_EventSubcaseOrder ==
  Tagged("event") =>
    CASE DecidingField(lastMsg) = "error" ->
           Yields(PLUGIN_EVENT.ERROR) /\ StateKept
      [] DecidingField(lastMsg) = "result" ->
           /\ StateKept
           /\ IF lastMsg.result = "ok"
                THEN Yields(PLUGIN_EVENT.CONFIGURED)
                ELSE lastRet = << >> /\ emitted = << >>
      [] DecidingField(lastMsg) = "participants" ->
           /\ Yields(PLUGIN_EVENT.PEER_CONFIGURED) /\ StateKept
           /\ RetEvent.data["feed"] = lastMsg.participants.arr[1].id
      [] DecidingField(lastMsg) = "leaving" ->
           /\ Yields(PLUGIN_EVENT.PEER_LEAVING) /\ StateKept
           /\ RetEvent.data["feed"] = lastMsg.leaving
      [] DecidingField(lastMsg) = "kicked" ->
           /\ Yields(PLUGIN_EVENT.KICKED) \/ Yields(PLUGIN_EVENT.PEER_KICKED)
           /\ RetEvent.data["feed"] = lastMsg.kicked
      [] OTHER -> lastRet = << >> /\ emitted = << >> /\ StateKept

\* C29 witness: a handle bound to feed 42 gets an 'event' with result 'no'
\* and kicked 42: no event, and the handle is still bound.
C29_Witness ==
  /\ Tagged("event") /\ lastMsg.result = "no" /\ lastMsg.kicked = "42"
  /\ prev.feed = "42" /\ feed[lastH] = "42" /\ room[lastH] = prev.room
  /\ lastRet = << >>

\* the outcome of handing the message just dispatched to the same handle once
\* more, in the state the first delivery left
Redelivered == handleMessage(lastH, lastMsg, feed[lastH], room[lastH], reg)

\* a kicked notification naming a feed (not null)
KickedFeedMsg == KickedMsg /\ lastMsg.kicked # Null

\* C30: on an Unbound handle (feed = null) every kicked notification with a
\* defined kicked feed is classified as peer-kicked and leaves the handle
\* Unbound; so when the same notification is delivered twice to a handle
\* bound to that feed, the first is self-kicked and the second peer-kicked: a
\* self-kicked event is only produced for a handle that was bound to the
\* kicked feed, and it leaves the handle unbound.  A defined kicked feed is
\* read as one that is neither undefined nor null.
C30_KickedOncePerBinding ==
  KickedFeedMsg =>
    /\ prev.feed = Null =>
          /\ Yields(PLUGIN_EVENT.PEER_KICKED)
          /\ feed[lastH] = Null /\ room[lastH] = prev.room
    /\ Yields(PLUGIN_EVENT.KICKED) =>
          /\ prev.feed = lastMsg.kicked
          /\ feed[lastH] = Null /\ room[lastH] = Null
          /\ Redelivered.ret # << >>
          /\ Redelivered.ret[1].event = PLUGIN_EVENT.PEER_KICKED
          /\ Redelivered.feed = Null /\ Redelivered.room = Null

\* C30 witness: a handle that is not in a room is told that feed 42 was
\* kicked, reports a peer's kick and stays unbound.
C30_Witness ==
  /\ KickedFeedMsg /\ lastMsg.kicked = "42"
  /\ prev.feed = Null /\ prev.room = Null
  /\ Yields(PLUGIN_EVENT.PEER_KICKED)
  /\ feed[lastH] = Null /\ room[lastH] = Null

\* the handle bound to feed 42 is told that feed 42 was kicked, and a second
\* delivery of the notification would report a peer's kick
C30_SelfKickedThenPeer ==
  /\ KickedFeedMsg /\ lastMsg.kicked = "42" /\ prev.feed = "42"
  /\ Yields(PLUGIN_EVENT.KICKED)
  /\ Redelivered.ret[1].event = PLUGIN_EVENT.PEER_KICKED

\* C31: state change and event production are all-or-nothing for one message:
\* whenever the dispatch of a message does not return a normalized event (not
\* handled, unclassifiable, or classification aborted on a malformed message
\* such as an own 'joined' without a participants array), the handle's feed
\* and room are the same as before the dispatch.
C31_AllOrNothing ==
  (Dispatched /\ lastRet = << >>) => StateKept

\* an own 'joined' message without a participants array: the classification
\* is aborted after the handle's room and feed have been assigned
C31_AbortedAfterAssigning ==
  /\ Tagged("joined") /\ lastMsg.id # Undef /\ ~lastMsg.participants.def
  /\ threw /\ lastRet = << >> /\ emitted = << >>
  /\ feed[lastH] = lastMsg.id /\ room[lastH] = lastMsg.room
  /\ ~StateKept

(* ------------------------------------------------------------------ *)
(* Example server: properties                                          *)
(* ------------------------------------------------------------------ *)

\* the calls of initBackEnd that have not returned or thrown
Running == { a \in Slots : attempts[a].pc # "idle" }

\* the connection attempts scheduled: timeouts set, and calls in progress
Scheduled == timers + Cardinality(Running)

\* a CONNECTION_ERROR handled while the task marker is set schedules nothing
NoOpWhileScheduled ==
  (task # Null /\ backStep' = "error") =>
    (timers' = timers /\ task' = task /\ Running' = Running)

\* the task marker is cleared only by a step in which a call of initBackEnd
\* finishes
ClearedByFinish ==
  (task # Null /\ task' = Null) =>
    (\E a \in Running : Running' = Running \ {a})

\* C32: at most one back-end connection attempt is scheduled at any time:
\* scheduleBackEndConnection is a no-op while a scheduled task exists (the
\* marker is set exactly while a timeout is set or a call of initBackEnd is in
\* progress), the marker is cleared only by the step in which the attempt it
\* started finishes, a failed attempt leaves a new timeout set, and so a new
\* attempt follows every failed one.
C32_OneAttemptAtATime ==
  /\ [](/\ Scheduled <= 1
        /\ (task # Null) <=> (Scheduled = 1)
        /\ (backStep = "failed") => (task # Null /\ timers = 1))
  /\ [][NoOpWhileScheduled /\ ClearedByFinish]_vars
  /\ (backStep = "failed") ~> (backStep = "started")

\* C32 witness: a connection reports an error while the call of initBackEnd
\* that created it is in progress, and no second attempt is scheduled.
C32_Witness ==
  /\ backStep = "error"
  /\ \E a \in Running : attempts[a].conn = "error"
  /\ task # Null /\ timers = 0 /\ Scheduled = 1

C33_ErrorDropped ==
  /\ owed /\ task = Null /\ timers = 0 /\ Running = {}
  /\ backStep = "attached"
  /\ \A a \in Slots : attempts[a].conn # "open"

\* the handlers of the socket's events that have called, or refused to call,
\* an operation
Handlers ==
  { joins[j] : j \in JoinSlots } \cup { reqs[r] : r \in RequestSlots }

\* the success replies and the error replies a handler has sent
SuccessReplies(q) ==
  { i \in DOMAIN q.sent : q.sent[i].event # "audiobridge-error" }
ErrorReplies(q) ==
  { i \in DOMAIN q.sent : q.sent[i].event = "audiobridge-error" }

\* a handler replies as a request-style operation should: success only once
\* the operation has resolved and with its response, an error when it has
\* rejected, never both
RepliesAfterSettling(q) ==
  /\ \A i \in SuccessReplies(q) :
        q.outcome = "resolved" /\ q.sent[i].data = "response"
  /\ q.outcome = "rejected" => ErrorReplies(q) # {}
  /\ SuccessReplies(q) = {} \/ ErrorReplies(q) = {}

\* C34: every socket handler of a request-style operation (join, configure,
\* hangup, leave, list-participants, kick, exists, list-rooms, create,
\* destroy, allow, rtp-fwd-start, rtp-fwd-stop, rtp-fwd-list) sends its
\* success reply only after the handle operation has resolved, with the
\* resolved event data, sends an 'audiobridge-error' reply when the operation
\* rejects, and never sends both for one request.
C34_ReplyAfterSettle == \A q \in Handlers : RepliesAfterSettling(q)

\* the 'allowed' reply has been sent with the promise of an operation that
\* has not settled
C34_AllowedBeforeSettling ==
  \E r \in RequestSlots :
    /\ reqs[r].op = "allow" /\ reqs[r].outcome = "pending"
    /\ reqs[r].sent = <<[event |-> "allowed", data |-> "promise"]>>

\* the operation behind an 'allowed' reply has rejected and no error reply
\* was sent
C34_AllowRejectionUnreported ==
  \E r \in RequestSlots :
    /\ reqs[r].op = "allow" /\ reqs[r].outcome = "rejected"
    /\ ErrorReplies(reqs[r]) = {}

\* every handler but the one of allow replies as a request-style operation
\* should
AwaitedRepliesAfterSettling ==
  \A q \in Handlers : q.op # "allow" => RepliesAfterSettling(q)

\* the socket's handles that are attached and on which detach was not called
AttachedHandles == { h \in AudioHandles : handleSt[h] = "attached" }

\* C35: each client socket has at most one attached, non-detached audiobridge
\* handle at any time, under any interleaving of the socket's join events: a
\* previously attached handle is detached before a new one is attached, and
\* a handle whose join fails is detached.
C35_OneHandlePerSocket ==
  /\ Cardinality(AttachedHandles) <= 1
  /\ \A j \in JoinSlots :
        joins[j].outcome = "rejected" => handleSt[joins[j].h] = "detached"

\* two join events were handled concurrently on a fresh socket: both handles
\* are attached, and the socket only holds the second
C35_TwoHandlesAttached ==
  /\ Cardinality(AttachedHandles) = 2
  /\ \A j \in JoinSlots : joins[j].pc = "join" /\ joins[j].h \in AttachedHandles
  /\ audioHandle \in AttachedHandles

====
